---------------------------- MODULE Spec2Model ----------------------------
(***************************************************************************)
(* Model of the Enigma E-Cell landing-page scripts.                        *)
(*                                                                         *)
(*   src/script.js          hero language cycle and the page around it     *)
(*   src/unnamed/part_000   the second script variant (no language cycle)  *)
(*                                                                         *)
(* Nine specifications share the module:                                   *)
(*   Spec         the multilingual hero animation of script.js, driven by  *)
(*                DOMContentLoaded, visibilitychange, the reduced-motion   *)
(*                media query, beforeunload and the timers it creates;     *)
(*   StatsSpec    the intersection observers, the reveal of the fade-in    *)
(*                elements and the statistics counter of both variants;    *)
(*   WrapperSpec  the wrappers made by throttle() and debounce();          *)
(*   PageSpec     init() / initApp(): the initializers in order, over      *)
(*                every document and with or without IntersectionObserver; *)
(*   RevealLiveSpec  StatsSpec with the browser's frame scheduling (weak   *)
(*                fairness of the animation frame);                        *)
(*   NavSpec      the page in use: navigation links, mobile menu, section  *)
(*                tracker, scroll handler, form submission, cleanup;       *)
(*   FormSpec     the contact form: editing, validation, submission;       *)
(*   SheenSpec    the sheen timers of the hero letters of part_000;        *)
(*   CycleLiveSpec  Spec with the browser's scheduling of loading and of   *)
(*                timers (weak fairness).                                  *)
(* Time is discrete.  Timers hold the time left until they are due; a      *)
(* timer that is due fires before time moves on.                           *)
(***************************************************************************)
EXTENDS Integers, Sequences, FiniteSets

\* ------------------------------------------------------------------------
\* Program constants (src/script.js:16-25)
\* ------------------------------------------------------------------------
ANIMATION_INTERVAL == 3000

FADE_DURATION == 800

\* The six entries of LANGUAGES.  The Hindi and the Marathi entry carry the
\* same text (the same code points) and differ in lang and label only.
LANGUAGES ==
  << [text |-> "ENIGMA",            lang |-> "en", label |-> "English"],
     [text |-> "enigma-devanagari", lang |-> "hi", label |-> "Hindi"],
     [text |-> "enigma-kannada",    lang |-> "kn", label |-> "Kannada"],
     [text |-> "enigma-devanagari", lang |-> "mr", label |-> "Marathi"],
     [text |-> "enigma-gujarati",   lang |-> "gu", label |-> "Gujarati"],
     [text |-> "enigma-bengali",    lang |-> "bn", label |-> "Bengali"] >>

\* LANGUAGES[i] with the 0-based index of the script.
Language(i) == LANGUAGES[i + 1]

\* ------------------------------------------------------------------------
\* Bounds of the exploration
\* ------------------------------------------------------------------------
\* Number of browser events (visibility, media query, beforeunload) explored.
MaxEnvEvents == 4

\* Number of periods counted in an undisturbed run of the cycle.
MaxPeriods == 7

\* Number of .stat-number elements on the page.
NumCounters == 2

\* Animation frames fall on multiples of 1/StatsSteps of statsCountDuration.
StatsSteps == 8

\* Largest distance between two animation frames, in those steps.
MaxFrameGap == 3

\* Largest number of entries one intersection callback reports.
MaxEntries == 2

\* Largest time, in those steps, by which the performance.now() of an observer
\* callback lies after the timestamp of the frame the callback runs in.
MaxSampleLag == 2

\* The data-count values the markup may carry (the markup is not part of the
\* scripts): without and with the '+' suffix of part_000.
TargetCounts == {0, 7, 100, 150}

\* ------------------------------------------------------------------------
\* Time
\* ------------------------------------------------------------------------
RECURSIVE GCD(_, _)
GCD(a, b) == IF b = 0 THEN a ELSE GCD(b, a % b)

\* One step of the clock: the largest unit that measures the period of the
\* interval, the half fade and the fade exactly (200 ms).
TimeUnit == GCD(ANIMATION_INTERVAL, FADE_DURATION \div 2)

\* setInterval(..., ANIMATION_INTERVAL)
IntervalDelay == ANIMATION_INTERVAL \div TimeUnit

\* setTimeout(..., FADE_DURATION / 2)
HalfFadeDelay == (FADE_DURATION \div 2) \div TimeUnit

\* setTimeout(..., FADE_DURATION)
FadeDelay == FADE_DURATION \div TimeUnit

\* Some timer of the set is due
Due(timers) == \E t \in timers : t.rem = 0

VARIABLES
  \* --- browser (script.js) ---
  loaded,                 \* DOMContentLoaded has run init()
  hidden,                 \* document.hidden
  mediaReduced,           \* matchMedia('(prefers-reduced-motion: reduce)').matches
  envEvents,              \* browser events delivered so far
  \* --- script.js module state ---
  currentLanguageIndex,   \* let currentLanguageIndex = 0
  animationInterval,      \* let animationInterval = null   (0 is null)
  prefersReducedMotion,   \* let prefersReducedMotion = false
  hero,                   \* the #hero-text element
  intervals,              \* live setInterval timers: [id, rem]
  timeouts,               \* pending setTimeout timers: [kind, idx, rem]
  \* --- history of the cycle (observers of the run, not program state) ---
  run,                    \* "none", "single" (started once, undisturbed), "disturbed"
  periods,                \* interval ticks of a "single" run
  \* --- statistics counter (both variants) ---
  variant,                \* "script" (src/script.js) or "part000" (src/unnamed/part_000)
  statsMedia,             \* what the reduced-motion media query reports
  reducedMotion,          \* STATE.reducedMotion
  observers,              \* STATE.observers: the observers the script keeps for cleanup()
  connected,              \* the IntersectionObservers created and not disconnected
  visible,                \* the observed elements that carry the class 'visible'
  classFrames,            \* pending requestAnimationFrame callbacks of addClassWithAnimation
  statsAnimated,          \* STATE.statsAnimated
  targets,                \* data-count of each .stat-number element
  display,                \* textContent of each .stat-number element: [num, plus]
  frames,                 \* pending requestAnimationFrame callbacks: [el, elapsed]
  \* --- history of the counter ---
  statsRuns,              \* calls of animateStats / animateStatistics so far
  completed,              \* elements whose counting reached progress 1
  unloaded,               \* the beforeunload listener has run
  reported,               \* the reveal targets a callback has reported as intersecting
  \* --- sheen of the hero letters (part_000) ---
  sheenTimers,            \* pending setTimeout callbacks of each .hero-letter: [starts, loops]
  \* --- wrappers made by throttle() and debounce() ---
  inThrottle,             \* let inThrottle of each throttle closure
  wtimers,                \* pending setTimeout callbacks of the wrappers: [w, rem, args]
  fired,                  \* the call of a wrapped function the last step made, if any
  \* --- history of the wrappers ---
  sinceExec,              \* time since the last executed call of a throttle wrapper
  sinceCall,              \* time since the last call of a debounce wrapper
  lastArgs,               \* arguments of the last call of a debounce wrapper
  dropped,                \* throttle wrappers that have dropped a call
  superseded,             \* debounce wrappers whose pending call was replaced by another
  \* --- the page and its initialization ---
  inDocument,             \* the elements of the document the scripts look up
  ioSupport,              \* the platform defines IntersectionObserver
  listeners,              \* the event listeners and timers the initializers registered
  observed,               \* the elements passed to observer.observe()
  initResult,             \* "pending", "done", "caught" or "uncaught" (an exception left init)
  \* --- the page in use ---
  nav,                    \* navigation: STATE.currentSection, STATE.isNavOpen, classes, focus
  form                    \* the contact form: fields, marks, submit button, timers

cycleVars == << loaded, hidden, mediaReduced, envEvents, currentLanguageIndex,
                animationInterval, prefersReducedMotion, hero, intervals,
                timeouts, run, periods >>

statsVars == << variant, statsMedia, reducedMotion, observers, connected, visible,
                classFrames, statsAnimated, targets, display, frames, statsRuns,
                completed, unloaded, reported, sheenTimers >>

wrapperVars == << inThrottle, wtimers, fired, sinceExec, sinceCall, lastArgs,
                  dropped, superseded >>

pageVars == << inDocument, ioSupport, listeners, observed, initResult, nav, form >>

vars == << cycleVars, statsVars, wrapperVars, pageVars >>

\* ------------------------------------------------------------------------
\* The hero element
\* ------------------------------------------------------------------------
NoLabel == << "", "" >>

GenericLabel == << "Company name in multiple languages", "" >>

\* `${language.label}: ${language.text}`
LabelOf(language) == << language.label, language.text >>

\* The element as the markup delivers it, before any script touched it.
MarkupHero(present) ==
  [ present   |-> present,
    text      |-> "markup",
    lang      |-> "",
    ariaLabel |-> NoLabel,
    ariaLive  |-> "",
    classes   |-> {} ]

\* ------------------------------------------------------------------------
\* The script's functions, as functions of the module state s
\* ------------------------------------------------------------------------
Cur ==
  [ currentLanguageIndex |-> currentLanguageIndex,
    animationInterval    |-> animationInterval,
    prefersReducedMotion |-> prefersReducedMotion,
    hero                 |-> hero,
    intervals            |-> intervals,
    timeouts             |-> timeouts,
    run                  |-> run,
    periods              |-> periods ]

CycleBecomes(s) ==
  /\ currentLanguageIndex' = s.currentLanguageIndex
  /\ animationInterval' = s.animationInterval
  /\ prefersReducedMotion' = s.prefersReducedMotion
  /\ hero' = s.hero
  /\ intervals' = s.intervals
  /\ timeouts' = s.timeouts
  /\ run' = s.run
  /\ periods' = s.periods

Becomes(s) ==
  /\ CycleBecomes(s)
  /\ UNCHANGED << statsVars, wrapperVars, pageVars >>

\* updateLanguageText(element, languageIndex)
updateLanguageText(element, languageIndex) ==
  [ element EXCEPT !.text = Language(languageIndex).text,
                   !.lang = Language(languageIndex).lang,
                   !.ariaLabel = LabelOf(Language(languageIndex)) ]

\* The handle setInterval returns: a positive number no live timer carries.
NewHandle(s) ==
  CHOOSE h \in 1..(Cardinality(s.intervals) + 1) :
    /\ \A t \in s.intervals : t.id # h
    /\ \A k \in 1..(h - 1) : \E t \in s.intervals : t.id = k

\* A start of the cycle ends an undisturbed run unless it is the first one.
RunAfterStart(s) == IF s.run = "none" THEN "single" ELSE "disturbed"

\* A stop, or a reset of the text to LANGUAGES[0], ends an undisturbed run.
RunAfterStop(s) == IF s.run = "none" THEN "none" ELSE "disturbed"

\* startLanguageCycle(element)
startLanguageCycle(s) ==
  LET h == NewHandle(s) IN
  [ s EXCEPT !.hero = updateLanguageText(s.hero, s.currentLanguageIndex),
             !.intervals = s.intervals \cup {[id |-> h, rem |-> IntervalDelay]},
             !.animationInterval = h,
             !.run = RunAfterStart(s),
             !.periods = 0 ]

\* initMultilingualAnimation(), with the value the media query reports
initMultilingualAnimation(s, matches) ==
  LET s1 == [s EXCEPT !.prefersReducedMotion = matches]
      el == [s.hero EXCEPT !.ariaLive = "polite", !.ariaLabel = GenericLabel]
  IN  IF ~s.hero.present THEN s1
      ELSE IF matches
        THEN [s1 EXCEPT !.hero = [el EXCEPT !.text = Language(0).text,
                                            !.lang = Language(0).lang],
                        !.run = RunAfterStop(s),
                        !.periods = 0]
        ELSE startLanguageCycle([s1 EXCEPT !.hero = el])

\* Mutant of stopMultilingualAnimation: the stop also removes the fade classes.
stopMultilingualAnimationClearsClasses(s) ==
  IF s.animationInterval # 0
    THEN [ s EXCEPT !.intervals = {t \in s.intervals : t.id # s.animationInterval},
                    !.animationInterval = 0,
                    !.hero = [s.hero EXCEPT !.classes = {}],
                    !.run = RunAfterStop(s),
                    !.periods = 0 ]
    ELSE s

\* stopMultilingualAnimation()
stopMultilingualAnimation(s) ==
  IF s.animationInterval # 0
    THEN [ s EXCEPT !.intervals = {t \in s.intervals : t.id # s.animationInterval},
                    !.animationInterval = 0,
                    !.run = RunAfterStop(s),
                    !.periods = 0 ]
    ELSE s

\* The listener handleMotionPreferenceChange() registers, called with e.matches
motionPreferenceListener(s, matches) ==
  LET s1 == [s EXCEPT !.prefersReducedMotion = matches] IN
  IF ~s.hero.present THEN s1
  ELSE IF matches
    THEN LET s2 == stopMultilingualAnimation(s1) IN
         [ s2 EXCEPT !.hero = [s2.hero EXCEPT !.text = Language(0).text,
                                              !.lang = Language(0).lang,
                                              !.classes = {}],
                     !.run = RunAfterStop(s2),
                     !.periods = 0 ]
    ELSE initMultilingualAnimation(s1, matches)

\* Mutant of NextLanguageIndex: the index grows without the modulo.
NextLanguageIndexNoWrap(i) == i + 1

\* The callback of setInterval in startLanguageCycle, followed by
\* animateLanguageChange(element, currentLanguageIndex) up to its setTimeout.
NextLanguageIndex(i) == (i + 1) % Len(LANGUAGES)

animateLanguageChange(s, languageIndex) ==
  [ s EXCEPT !.hero = [s.hero EXCEPT !.classes = s.hero.classes \cup {"fade-out"}],
             !.timeouts = s.timeouts \cup
                 {[kind |-> "swap", idx |-> languageIndex, rem |-> HalfFadeDelay]} ]

intervalCallback(s) ==
  LET j == NextLanguageIndex(s.currentLanguageIndex) IN
  animateLanguageChange(
    [ s EXCEPT !.currentLanguageIndex = j,
               !.periods = IF s.run = "single" THEN s.periods + 1 ELSE 0 ], j)

\* Mutant of halfFadeCallback: the classes change, the text is not swapped.
halfFadeCallbackNoSwap(s, languageIndex) ==
  [ s EXCEPT !.hero = [s.hero EXCEPT !.classes =
                         (s.hero.classes \ {"fade-out"}) \cup {"fade-in"}],
             !.timeouts = s.timeouts \cup
                 {[kind |-> "cleanup", idx |-> 0, rem |-> FadeDelay]} ]

\* The outer setTimeout callback of animateLanguageChange
halfFadeCallback(s, languageIndex) ==
  [ s EXCEPT !.hero = [updateLanguageText(s.hero, languageIndex)
                         EXCEPT !.classes = (s.hero.classes \ {"fade-out"}) \cup {"fade-in"}],
             !.timeouts = s.timeouts \cup
                 {[kind |-> "cleanup", idx |-> 0, rem |-> FadeDelay]} ]

\* The inner setTimeout callback of animateLanguageChange
fadeInCleanupCallback(s) ==
  [ s EXCEPT !.hero = [s.hero EXCEPT !.classes = s.hero.classes \ {"fade-in"}] ]

\* ------------------------------------------------------------------------
\* throttle(func, limit) and debounce(func, wait), the same in both variants
\* ------------------------------------------------------------------------
\* throttle(..., 10) of setupScrollDetection
NavbarThrottleLimit == 10

\* throttle(..., 100) of initBackToTop
BackToTopThrottleLimit == 100

\* debounce(..., 250) of the resize listeners
ResizeDebounceWait == 250

\* The wrappers the page creates, named after their listeners
Throttles == {"navbar", "backToTop"}

Debounces == {"resize"}

Wrappers == Throttles \cup Debounces

\* The limit / wait the wrapper was created with, in ms
WrapperDelay(w) ==
  CASE w = "navbar"    -> NavbarThrottleLimit
    [] w = "backToTop" -> BackToTopThrottleLimit
    [] w = "resize"    -> ResizeDebounceWait

\* One step of the wrappers' clock: half the largest unit that measures every
\* delay, so that calls fall strictly inside the shortest window (5 ms).
WrapperUnit ==
  GCD(NavbarThrottleLimit, GCD(BackToTopThrottleLimit, ResizeDebounceWait)) \div 2

\* setTimeout(..., limit) / setTimeout(later, wait)
Delay(w) == WrapperDelay(w) \div WrapperUnit

\* The arguments a call may carry (two distinguishable events)
WrapperArgs == {"a", "b"}

NoArgs == ""

\* No wrapped function was called
NoCall == [w |-> "", args |-> NoArgs]

\* The wrapper has not been called / has not executed yet
Never == -1

\* The closures and timers of the wrappers
WCur == [inThrottle |-> inThrottle, wtimers |-> wtimers, fired |-> fired]

\* Mutant of throttled: the wrapper does not consult inThrottle.
throttledNoGuard(ws, w, args) ==
  [ ws EXCEPT !.fired = [w |-> w, args |-> args],
              !.inThrottle[w] = TRUE,
              !.wtimers = ws.wtimers \cup {[w |-> w, rem |-> Delay(w), args |-> NoArgs]} ]

\* The function throttle() returns, called with args
throttled(ws, w, args) ==
  IF ~ws.inThrottle[w]
    THEN [ ws EXCEPT !.fired = [w |-> w, args |-> args],
                     !.inThrottle[w] = TRUE,
                     !.wtimers = ws.wtimers \cup
                                   {[w |-> w, rem |-> Delay(w), args |-> NoArgs]} ]
    ELSE [ ws EXCEPT !.fired = NoCall ]

\* Mutant of releaseThrottle: one inThrottle flag is shared by the wrappers.
releaseThrottleShared(ws, w) ==
  [ ws EXCEPT !.inThrottle = [u \in Throttles |-> FALSE], !.fired = NoCall ]

\* () => inThrottle = false, the setTimeout callback of a throttle wrapper
releaseThrottle(ws, w) ==
  [ ws EXCEPT !.inThrottle[w] = FALSE, !.fired = NoCall ]

\* Mutant of debounced: the pending timer is not cleared.
debouncedNoClear(ws, w, args) ==
  [ ws EXCEPT !.fired = NoCall,
              !.wtimers = ws.wtimers \cup {[w |-> w, rem |-> Delay(w), args |-> args]} ]

\* executedFunction(...args), the function debounce() returns: the closure's
\* timeout names the wrapper's latest timer, which clearTimeout removes if it
\* is still pending
debounced(ws, w, args) ==
  [ ws EXCEPT !.fired = NoCall,
              !.wtimers = {t \in ws.wtimers : t.w # w} \cup
                            {[w |-> w, rem |-> Delay(w), args |-> args]} ]

\* later(), the setTimeout callback of a debounce wrapper: clearTimeout of the
\* timer that is running, then func(...args)
later(ws, t) ==
  [ ws EXCEPT !.fired = [w |-> t.w, args |-> t.args] ]

\* The wrappers right after init(): created, never called
WrappersIdle ==
  /\ inThrottle = [w \in Throttles |-> FALSE]
  /\ wtimers = {}
  /\ fired = NoCall
  /\ sinceExec = [w \in Throttles |-> Never]
  /\ sinceCall = [w \in Debounces |-> Never]
  /\ lastArgs = [w \in Debounces |-> NoArgs]
  /\ dropped = {}
  /\ superseded = {}

WBecomes(ws) ==
  /\ inThrottle' = ws.inThrottle
  /\ wtimers' = ws.wtimers
  /\ fired' = ws.fired

\* The scroll (resize) event calls the listener w with the event args
WrapperCall(w, args) ==
  /\ IF w \in Throttles
       THEN /\ WBecomes(throttled(WCur, w, args))
            /\ sinceExec' = IF inThrottle'[w] /\ fired' # NoCall
                              THEN [sinceExec EXCEPT ![w] = 0] ELSE sinceExec
            /\ dropped' = IF fired' = NoCall THEN dropped \cup {w} ELSE dropped
            /\ UNCHANGED << sinceCall, lastArgs, superseded >>
       ELSE /\ WBecomes(debounced(WCur, w, args))
            /\ sinceCall' = [sinceCall EXCEPT ![w] = 0]
            /\ lastArgs' = [lastArgs EXCEPT ![w] = args]
            /\ superseded' = IF \E t \in wtimers : t.w = w /\ t.args # args
                               THEN superseded \cup {w} ELSE superseded
            /\ UNCHANGED << sinceExec, dropped >>

WrapperEvent ==
  /\ \E w \in Wrappers, args \in WrapperArgs : WrapperCall(w, args)
  /\ UNCHANGED << cycleVars, statsVars, pageVars >>

\* The pending timer t of a wrapper is due
WrapperTimeoutStep(t) ==
  /\ t \in wtimers
  /\ t.rem = 0
  /\ IF t.w \in Throttles
       THEN WBecomes(releaseThrottle([WCur EXCEPT !.wtimers = wtimers \ {t}], t.w))
       ELSE WBecomes(later([WCur EXCEPT !.wtimers = wtimers \ {t}], t))
  /\ UNCHANGED << sinceExec, sinceCall, lastArgs, dropped, superseded >>

WrapperTimeout ==
  /\ \E t \in wtimers : WrapperTimeoutStep(t)
  /\ UNCHANGED << cycleVars, statsVars, pageVars >>

\* A history counter grows with the clock up to one unit past the delay
Elapse(x, w) == IF x = Never \/ x > Delay(w) THEN x ELSE x + 1

\* One unit of time passes; no timer is overdue
WrapperTimePasses ==
  /\ ~Due(wtimers)
  /\ wtimers' = {[t EXCEPT !.rem = t.rem - 1] : t \in wtimers}
  /\ sinceExec' = [w \in Throttles |-> Elapse(sinceExec[w], w)]
  /\ sinceCall' = [w \in Debounces |-> Elapse(sinceCall[w], w)]
  /\ fired' = NoCall
  /\ UNCHANGED << inThrottle, lastArgs, dropped, superseded >>
  /\ UNCHANGED << cycleVars, statsVars, pageVars >>

\* ------------------------------------------------------------------------
\* Navigation, mobile menu and section tracker (both files; the section
\* tracker is part_000's)
\* ------------------------------------------------------------------------
\* The section[id] elements of the document
Sections == {"hero", "about", "contact"}

\* The href `#${sectionId}`
Href(id) == [hash |-> TRUE, id |-> id]

\* A link that leaves the page
ExternalHref == [hash |-> FALSE, id |-> "page"]

\* The .nav-link elements, each known by its href: one per section, one whose
\* target is not in the document and one that is not internal
NavLinks == {Href(s) : s \in Sections} \cup {Href("missing"), ExternalHref}

\* document.querySelector(href) finds an element
TargetExists(href) == href.id \in Sections

\* Pending setTimeout(() => firstNavLink.focus(), 300) callbacks allowed at once
MaxFocusTimers == 1

\* Navigation state when the scripts have run their initializers:
\* STATE.currentSection = 'hero', STATE.isNavOpen = false, the classes and
\* attributes as the markup has them
NavAtLoad ==
  [ currentSection |-> "hero",
    isNavOpen      |-> FALSE,
    activeLinks    |-> {},
    navMenuActive  |-> FALSE,
    btnActive      |-> FALSE,
    ariaExpanded   |-> "markup",
    overflow       |-> "",
    scrolled       |-> FALSE,
    location       |-> "",
    focus          |-> "body",
    focusTimers    |-> 0 ]

\* updateActiveNavLink(activeHref): 'active' is removed from every link and
\* added to the links whose href is activeHref
updateActiveNavLink(nv, activeHref) ==
  [nv EXCEPT !.activeLinks = {link \in NavLinks : link = activeHref}]

openMobileMenu(nv) ==
  [nv EXCEPT !.isNavOpen = TRUE,
             !.navMenuActive = TRUE,
             !.ariaExpanded = "true",
             !.btnActive = TRUE,
             !.overflow = "hidden",
             !.focusTimers = nv.focusTimers + 1]

closeMobileMenu(nv) ==
  [nv EXCEPT !.isNavOpen = FALSE,
             !.navMenuActive = FALSE,
             !.ariaExpanded = "false",
             !.btnActive = FALSE,
             !.overflow = ""]

toggleMobileMenu(nv) ==
  IF nv.isNavOpen THEN closeMobileMenu(nv) ELSE openMobileMenu(nv)

\* The click listener setupBasicFallbacks() of part_000 puts on the menu
\* button: navMenu.classList.toggle('active'), aria-expanded set to the result
fallbackMenuClick(nv) ==
  [nv EXCEPT !.navMenuActive = ~nv.navMenuActive,
             !.ariaExpanded = IF ~nv.navMenuActive THEN "true" ELSE "false"]

\* A click on the menu button runs the listeners registered on it, in the
\* order of their registration: toggleMobileMenu (setupMobileMenu), then the
\* listener of setupBasicFallbacks
menuButtonListeners(nv, registered) ==
  LET n1 == IF "navigation" \in registered THEN toggleMobileMenu(nv) ELSE nv
  IN  IF "fallback-menu" \in registered THEN fallbackMenuClick(n1) ELSE n1

\* Mutant of handleNavigationClick: the click also records the section.
handleNavigationClickTracksSection(nv, href) ==
  IF href.hash /\ TargetExists(href)
    THEN LET n1 == IF nv.isNavOpen THEN closeMobileMenu(nv) ELSE nv
         IN  [updateActiveNavLink(n1, href) EXCEPT !.location = href.id,
                                                   !.currentSection = href.id]
    ELSE nv

\* handleNavigationClick(e) for a click on the link with this href
handleNavigationClick(nv, href) ==
  IF href.hash /\ TargetExists(href)
    THEN LET n1 == IF nv.isNavOpen THEN closeMobileMenu(nv) ELSE nv
         IN  [updateActiveNavLink(n1, href) EXCEPT !.location = href.id]
    ELSE nv

\* Mutant of sectionObserverEntry: the highlight is set once and kept.
sectionObserverEntryKeepsHighlight(nv, entry) ==
  IF entry.isIntersecting
    THEN IF nv.activeLinks = {}
           THEN updateActiveNavLink([nv EXCEPT !.currentSection = entry.target],
                                    Href(entry.target))
           ELSE [nv EXCEPT !.currentSection = entry.target]
    ELSE nv

\* One entry of the observer callback of setupSectionDetection (part_000)
sectionObserverEntry(nv, entry) ==
  IF entry.isIntersecting
    THEN updateActiveNavLink([nv EXCEPT !.currentSection = entry.target],
                             Href(entry.target))
    ELSE nv

\* entries.forEach(...) of the section observer
RECURSIVE forEachSectionEntry(_, _)
forEachSectionEntry(nv, entries) ==
  IF entries = << >> THEN nv
  ELSE forEachSectionEntry(sectionObserverEntry(nv, Head(entries)), Tail(entries))

\* The document's click listener of setupMobileMenu, for a click outside the
\* menu and its button
documentClickOutside(nv) ==
  IF nv.isNavOpen THEN closeMobileMenu(nv) ELSE nv

\* The keydown listeners for the Escape key: the one of setupMobileMenu closes
\* the menu and focuses the button; the one of setupKeyboardNavigation
\* (part_000) then finds the menu closed
escapeKeydown(nv) ==
  IF nv.isNavOpen
    THEN [closeMobileMenu(nv) EXCEPT !.focus = "mobile-menu-btn"]
    ELSE nv

\* The debounced resize listener, with window.innerWidth > 768 or not
resizeSettled(nv, wide) ==
  IF wide /\ nv.isNavOpen THEN closeMobileMenu(nv) ELSE nv

\* The scroll positions a scroll handler may read: around the threshold 20
ScrollOffsets == {0, 20, 21}

\* handleScroll of setupScrollDetection, with window.pageYOffset = y
handleScroll(nv, y) == [nv EXCEPT !.scrolled = (y > 20)]

\* ------------------------------------------------------------------------
\* The contact form
\* ------------------------------------------------------------------------
\* DOM.formElements of part_000, in the order of the object literal
Fields == << "name", "email", "subject", "message" >>

FieldNames == {Fields[i] : i \in 1..Len(Fields)}

\* A field's trimmed value: its length and whether it matches the e-mail
\* pattern of isValidEmail
Empty == [len |-> 0, email |-> FALSE]

Short == [len |-> 1, email |-> FALSE]

Good == [len |-> 12, email |-> TRUE]

FieldValues == {Empty, Short, Good}

\* The value classes in full: whether the field's rule accepts the value
\* (name: at least 2 characters; subject: 3, part_000 only; message: 10;
\* email: the pattern)
RuleAccepts(v, fieldName, value) ==
  CASE fieldName = "email"   -> value.email
    [] fieldName = "name"    -> value.len >= 2
    [] fieldName = "subject" -> (v = "script") \/ value.len >= 3
    [] fieldName = "message" -> value.len >= 10
    [] OTHER                 -> TRUE

\* isValid of validateField: script.js rejects every empty value, part_000
\* the empty value of a required field
isValid(v, fm, fieldName) ==
  LET value == fm.values[fieldName] IN
  IF value.len = 0
    THEN IF v = "script" THEN FALSE ELSE fieldName \notin fm.required
    ELSE RuleAccepts(v, fieldName, value)

Unmarked == [class |-> "", error |-> FALSE]

\* validateField: the class and the error message of the field follow isValid
validateField(v, fm, fieldName) ==
  [fm EXCEPT !.marks[fieldName] =
     IF isValid(v, fm, fieldName) THEN [class |-> "success", error |-> FALSE]
                                  ELSE [class |-> "error", error |-> TRUE]]

\* clearFieldError: part_000 removes both classes; script.js removes
\* 'error', with the message, when the field carries it
clearFieldError(v, fm, fieldName) ==
  IF v = "part000"
    THEN [fm EXCEPT !.marks[fieldName].class = ""]
    ELSE IF fm.marks[fieldName].class = "error"
           THEN [fm EXCEPT !.marks[fieldName] = Unmarked]
           ELSE fm

\* The fields validateForm visits: the .form-control[required] elements
\* (script.js); the form elements that exist (part_000)
Validated(v, fm) ==
  IF v = "script" THEN fm.required \cap fm.elements
                  ELSE FieldNames \cap fm.elements

RECURSIVE validateEach(_, _, _, _)
validateEach(v, fm, fields, i) ==
  IF i > Len(fields) THEN fm
  ELSE validateEach(v,
         IF fields[i] \in Validated(v, fm) THEN validateField(v, fm, fields[i]) ELSE fm,
         fields, i + 1)

\* validateForm: every visited field is validated and marked; the form is
\* valid when each of them is
validateForm(v, fm) ==
  [ form  |-> validateEach(v, fm, Fields, 1),
    valid |-> \A f \in Validated(v, fm) : isValid(v, fm, f) ]

Blank == [f \in FieldNames |-> Empty]

Filled == [f \in FieldNames |-> Good]

\* The submit button as the markup has it
ButtonAtLoad ==
  [disabled |-> FALSE, loading |-> FALSE, btnText |-> "markup", btnLoading |-> "markup"]

\* setSubmissionLoading(isLoading)
setSubmissionLoading(fm, isLoading) ==
  [fm EXCEPT !.submitBtn =
     IF isLoading
       THEN [disabled |-> TRUE, loading |-> TRUE, btnText |-> "none", btnLoading |-> "block"]
       ELSE [disabled |-> FALSE, loading |-> FALSE, btnText |-> "block", btnLoading |-> "none"]]

\* showSuccessMessage: the message is shown and a timer will hide it
showSuccessMessage(fm) ==
  [fm EXCEPT !.successShown = TRUE, !.hideTimers = fm.hideTimers + 1]

\* resetForm of part_000: form.reset(), then every field loses its marks
resetForm(fm) ==
  [fm EXCEPT !.values = Blank,
             !.marks = [f \in FieldNames |->
                          IF f \in fm.elements THEN Unmarked ELSE fm.marks[f]]]

\* Mutant of catchAndFinally: the finally block is missing.
catchWithoutFinally(fm) == [fm EXCEPT !.alerted = TRUE]

\* catch (error) { showSubmissionError(...) } finally { setSubmissionLoading(false) }
catchAndFinally(fm) ==
  setSubmissionLoading([fm EXCEPT !.alerted = TRUE], FALSE)

\* The first field that carries 'error', if any: querySelector('.form-control.error')
FirstInvalid(fm) ==
  LET bad == {i \in 1..Len(Fields) :
                Fields[i] \in fm.elements /\ fm.marks[Fields[i]].class = "error"}
  IN  IF bad = {} THEN "" ELSE Fields[CHOOSE i \in bad : \A j \in bad : i <= j]

\* Mutant of handleFormSubmission: the result of validateForm is ignored.
handleFormSubmissionNoValidation(v, ui) ==
  LET fm == validateForm(v, ui.form).form IN
  [ui EXCEPT !.form = [setSubmissionLoading(fm, TRUE) EXCEPT
                         !.submitTimers = fm.submitTimers + 1]]

\* The submit listener up to its first suspension: handleFormSubmit
\* (script.js) / handleFormSubmission up to its await (part_000)
handleFormSubmission(v, ui) ==
  LET checked == validateForm(v, ui.form)
      fm == checked.form
  IN
  IF ~checked.valid
    THEN IF v = "part000" /\ FirstInvalid(fm) # ""
           THEN [ui EXCEPT !.form = fm, !.nav.focus = FirstInvalid(fm)]
           ELSE [ui EXCEPT !.form = fm]
  ELSE IF v = "part000" /\ ~(FieldNames \subseteq fm.elements)
    \* DOM.formElements.<field>.value of a missing field throws inside try
    THEN [ui EXCEPT !.form = catchAndFinally(setSubmissionLoading(fm, TRUE))]
  ELSE [ui EXCEPT !.form = [setSubmissionLoading(fm, TRUE) EXCEPT
                              !.submitTimers = fm.submitTimers + 1]]

\* The submission delay has passed: the timeout callback of handleFormSubmit
\* (script.js); the rest of handleFormSubmission after its await (part_000)
submissionSettles(v, fm0) ==
  LET fm == [fm0 EXCEPT !.submitTimers = fm0.submitTimers - 1] IN
  IF v = "script"
    THEN LET shown == IF "success-message" \in fm.elements
                        THEN showSuccessMessage(fm) ELSE fm
         IN  [setSubmissionLoading(shown, FALSE) EXCEPT
                !.values = Blank,
                !.marks = [f \in FieldNames |->
                             IF f \in fm.elements
                               THEN [fm.marks[f] EXCEPT !.class = ""]
                               ELSE fm.marks[f]]]
  ELSE IF "success-message" \notin fm.elements
    \* showSuccessMessage throws: the form is not reset
    THEN catchAndFinally(fm)
  ELSE setSubmissionLoading(resetForm(showSuccessMessage(fm)), FALSE)

\* The timer of showSuccessMessage hides the message
hideSuccessMessage(fm) ==
  [fm EXCEPT !.successShown = FALSE, !.hideTimers = fm.hideTimers - 1]

\* Success messages waiting to be hidden, and submissions that will show one
MaxHideTimers == 1

\* The documents the form is checked in: every element present, the subject
\* field absent, the success message absent
FormDocuments ==
  { FieldNames \cup {"submit-btn", "success-message"},
    (FieldNames \ {"subject"}) \cup {"submit-btn", "success-message"},
    FieldNames \cup {"submit-btn"} }

\* The form when the scripts have run their initializers
FormAtLoad(elements, required, values) ==
  [ elements     |-> elements,
    required     |-> required \cap elements,
    values       |-> values,
    marks        |-> [f \in FieldNames |-> Unmarked],
    submitBtn    |-> ButtonAtLoad,
    successShown |-> FALSE,
    submitTimers |-> 0,
    hideTimers   |-> 0,
    inputTimers  |-> {},
    alerted      |-> FALSE,
    edits        |-> 0 ]

\* Navigation and form are not part of the specification
UseIdle ==
  /\ nav = NavAtLoad
  /\ form = FormAtLoad(FieldNames \cup {"submit-btn", "success-message"}, FieldNames, Blank)

\* ------------------------------------------------------------------------
\* Actions of Spec
\* ------------------------------------------------------------------------
\* script.js as loaded: its top-level listeners are registered, init() has
\* not run yet.  The page may load in a background tab.
CycleAtLoad(visibility, media, heroes) ==
  /\ loaded = FALSE
  /\ hidden \in visibility
  /\ mediaReduced \in media
  /\ envEvents = 0
  /\ currentLanguageIndex = 0
  /\ animationInterval = 0
  /\ prefersReducedMotion = FALSE
  /\ hero \in {MarkupHero(p) : p \in heroes}
  /\ intervals = {}
  /\ timeouts = {}
  /\ run = "none"
  /\ periods = 0

\* ------------------------------------------------------------------------
\* Sheen of the hero letters (part_000)
\* ------------------------------------------------------------------------
\* Number of .hero-letter elements of the hero title.
NumLetters == 2

\* Largest number of pending sheen timeouts of one letter explored.
MaxSheenTimers == 3

\* The pending timeouts of n letters, none pending: starts counts the
\* callbacks set by addSheenAnimationToLetters, loops those of animateSheen.
\* The delays are random (3-5 s and 8-13 s), the timeouts carry no time.
SheenOf(n) == [starts |-> [l \in 1..n |-> 0], loops |-> [l \in 1..n |-> 0]]

\* A document without .hero-letter elements: DOM.heroLetters is empty.
NoSheen == SheenOf(0)

\* addSheenAnimationToLetters(): one timeout per letter
addSheenAnimationToLetters(sh) ==
  [sh EXCEPT !.starts = [l \in DOMAIN sh.starts |-> sh.starts[l] + 1]]

\* animateSheen() of the letter l: returns when reduced motion is preferred,
\* restarts the CSS animation and sets the next timeout otherwise
animateSheen(sh, reduced, l) ==
  IF reduced THEN sh ELSE [sh EXCEPT !.loops[l] = @ + 1]

\* startSheenLoop(letter)
startSheenLoop(sh, reduced, l) == animateSheen(sh, reduced, l)

\* The callback of the timeout addSheenAnimationToLetters set for the letter l
sheenStartCallback(sh, reduced, l) ==
  LET s1 == [sh EXCEPT !.starts[l] = @ - 1] IN
  IF ~reduced THEN startSheenLoop(s1, reduced, l) ELSE s1

\* The callback of a timeout animateSheen set for the letter l
sheenLoopCallback(sh, reduced, l) ==
  animateSheen([sh EXCEPT !.loops[l] = @ - 1], reduced, l)

\* The end of the media query's change listener (initAccessibility), with
\* e.matches: CONFIG.animations.enabled is true
restartAnimations(sh, matches) ==
  IF ~matches THEN addSheenAnimationToLetters(sh) ELSE sh

\* The end of initHeroAnimations() with the title and n letters present
SheenAtLoad(n, reduced) ==
  IF reduced THEN SheenOf(n) ELSE addSheenAnimationToLetters(SheenOf(n))

\* The statistics counter before any script touched it.
NoDisplay == [num |-> 0, plus |-> FALSE]

StatsIdle ==
  /\ variant = "script"
  /\ statsMedia = FALSE
  /\ reducedMotion = FALSE
  /\ observers = << >>
  /\ connected = {}
  /\ visible = {}
  /\ classFrames = {}
  /\ statsAnimated = FALSE
  /\ targets = << >>
  /\ display = << >>
  /\ frames = {}
  /\ statsRuns = 0
  /\ completed = {}
  /\ unloaded = FALSE
  /\ reported = {}
  /\ sheenTimers = NoSheen

\* The page-level initialization is not part of the specification
NotInitializing ==
  /\ inDocument = {}
  /\ ioSupport = TRUE
  /\ listeners = {}
  /\ observed = {}
  /\ initResult = "pending"

PageIdle ==
  /\ NotInitializing
  /\ UseIdle

Init ==
  /\ CycleAtLoad(BOOLEAN, BOOLEAN, BOOLEAN)
  /\ StatsIdle
  /\ WrappersIdle
  /\ PageIdle

\* document 'DOMContentLoaded' -> init()
DOMContentLoaded ==
  /\ ~loaded
  /\ loaded' = TRUE
  /\ Becomes(initMultilingualAnimation(Cur, mediaReduced))
  /\ UNCHANGED << hidden, mediaReduced, envEvents >>

\* document 'visibilitychange', the page having become hidden
VisibilityHidden ==
  /\ ~hidden
  /\ envEvents < MaxEnvEvents
  /\ hidden' = TRUE
  /\ envEvents' = envEvents + 1
  /\ Becomes(stopMultilingualAnimation(Cur))
  /\ UNCHANGED << loaded, mediaReduced >>

\* document 'visibilitychange', the page having become visible
VisibilityVisible ==
  /\ hidden
  /\ envEvents < MaxEnvEvents
  /\ hidden' = FALSE
  /\ envEvents' = envEvents + 1
  /\ IF ~prefersReducedMotion
       THEN Becomes(initMultilingualAnimation(Cur, mediaReduced))
       ELSE Becomes(Cur)
  /\ UNCHANGED << loaded, mediaReduced >>

\* The user changes the reduced-motion setting.  The listener exists once
\* init() has called handleMotionPreferenceChange().
MotionPreferenceChange ==
  /\ envEvents < MaxEnvEvents
  /\ mediaReduced' = ~mediaReduced
  /\ envEvents' = envEvents + 1
  /\ IF loaded
       THEN Becomes(motionPreferenceListener(Cur, ~mediaReduced))
       ELSE Becomes(Cur)
  /\ UNCHANGED << loaded, hidden >>

\* window 'beforeunload' (the page stays when the navigation does not unload
\* it, as for a mailto: link)
BeforeUnload ==
  /\ envEvents < MaxEnvEvents
  /\ envEvents' = envEvents + 1
  /\ Becomes(stopMultilingualAnimation(Cur))
  /\ UNCHANGED << loaded, hidden, mediaReduced >>

\* A live interval is due
IntervalTick ==
  \E t \in intervals :
    /\ t.rem = 0
    /\ run = "single" => periods < MaxPeriods
    /\ Becomes(intervalCallback(
         [Cur EXCEPT !.intervals = (intervals \ {t}) \cup {[t EXCEPT !.rem = IntervalDelay]}]))
    /\ UNCHANGED << loaded, hidden, mediaReduced, envEvents >>

\* The half-fade timeout t is due
HalfFadeStep(t) ==
  /\ t.kind = "swap"
  /\ t.rem = 0
  /\ Becomes(halfFadeCallback([Cur EXCEPT !.timeouts = timeouts \ {t}], t.idx))
  /\ UNCHANGED << loaded, hidden, mediaReduced, envEvents >>

HalfFadeTimeout == \E t \in timeouts : HalfFadeStep(t)

\* A fade-in clean-up timeout is due
FadeInTimeout ==
  \E t \in timeouts :
    /\ t.kind = "cleanup"
    /\ t.rem = 0
    /\ Becomes(fadeInCleanupCallback([Cur EXCEPT !.timeouts = timeouts \ {t}]))
    /\ UNCHANGED << loaded, hidden, mediaReduced, envEvents >>

\* One unit of time passes; no timer is overdue
TimePasses ==
  /\ intervals \cup timeouts # {}
  /\ ~Due(intervals) /\ ~Due(timeouts)
  /\ intervals' = {[t EXCEPT !.rem = t.rem - 1] : t \in intervals}
  /\ timeouts' = {[t EXCEPT !.rem = t.rem - 1] : t \in timeouts}
  /\ UNCHANGED << loaded, hidden, mediaReduced, envEvents, currentLanguageIndex,
                  animationInterval, prefersReducedMotion, hero, run, periods >>
  /\ UNCHANGED << statsVars, wrapperVars, pageVars >>

Next ==
  \/ DOMContentLoaded
  \/ VisibilityHidden
  \/ VisibilityVisible
  \/ MotionPreferenceChange
  \/ BeforeUnload
  \/ IntervalTick
  \/ HalfFadeTimeout
  \/ FadeInTimeout
  \/ TimePasses

Spec == Init /\ [][Next]_vars

\* A live interval is due after the counted periods of an undisturbed run
\* are used up: the callback is the same, and the count goes on from the
\* number below the bound that leaves the same remainder modulo the length
\* of LANGUAGES, so that the cycle can run for ever in finitely many states.
LaterIntervalTick ==
  \E t \in intervals :
    /\ t.rem = 0
    /\ run = "single"
    /\ periods = MaxPeriods
    /\ Becomes([intervalCallback(
         [Cur EXCEPT !.intervals = (intervals \ {t}) \cup {[t EXCEPT !.rem = IntervalDelay]}])
           EXCEPT !.periods = MaxPeriods + 1 - Len(LANGUAGES)])
    /\ UNCHANGED << loaded, hidden, mediaReduced, envEvents >>

CycleLiveNext ==
  \/ DOMContentLoaded
  \/ VisibilityHidden
  \/ VisibilityVisible
  \/ MotionPreferenceChange
  \/ BeforeUnload
  \/ IntervalTick
  \/ LaterIntervalTick
  \/ HalfFadeTimeout
  \/ FadeInTimeout
  \/ TimePasses

\* The language cycle with the scheduling of the browser: the document
\* finishes loading, time passes, and a timer that is due fires.  The events
\* of the user and of the window are under no obligation to happen.
CycleLiveSpec ==
  /\ Init
  /\ [][CycleLiveNext]_vars
  /\ WF_vars(DOMContentLoaded)
  /\ WF_vars(TimePasses)
  /\ WF_vars(IntervalTick)
  /\ WF_vars(LaterIntervalTick)
  /\ WF_vars(HalfFadeTimeout)
  /\ WF_vars(FadeInTimeout)

\* ------------------------------------------------------------------------
\* Statistics counter: animateStats (script.js), animateStatistics (part_000)
\* ------------------------------------------------------------------------
Counters == 1..NumCounters

Cube(x) == x * x * x

\* progress = Math.min(elapsed / duration, 1), in units of 1/StatsSteps:
\* elapsed is a number of steps of duration/StatsSteps.
Progress(elapsed) == IF elapsed < StatsSteps THEN elapsed ELSE StatsSteps

\* Mutant of easeOutCubic: Math.pow(1 - progress, 3), the "1 -" forgotten.
easeOutCubicInverted(progress) == Cube(StatsSteps - progress)

\* 1 - Math.pow(1 - progress, 3), in units of 1/StatsSteps^3
easeOutCubic(progress) == Cube(StatsSteps) - Cube(StatsSteps - progress)

\* Math.floor(target * easeOutCubic)
CurrentCount(target, elapsed) ==
  (target * easeOutCubic(Progress(elapsed))) \div Cube(StatsSteps)

\* (targetCount >= 100 ? '+' : '') of part_000; script.js writes the number alone
Suffix(v, target) == v = "part000" /\ target >= 100

\* The text updateNumber / updateCount leaves in the element when it returns
updateNumber(v, target, elapsed) ==
  IF Progress(elapsed) < StatsSteps
    THEN [num |-> CurrentCount(target, elapsed), plus |-> Suffix(v, target)]
    ELSE [num |-> target, plus |-> Suffix(v, target)]

\* animateStats() / animateStatistics(): one frame request per element.  A
\* pending callback is kept with the timestamp of the latest frame less its
\* startTime: st.now is what performance.now() returns, counted from the
\* timestamp of the frame the observer callback runs in.
animateStats(st) ==
  [ st EXCEPT !.frames = st.frames \cup {[el |-> c, elapsed |-> 0 - st.now] : c \in Counters},
              !.statsRuns = st.statsRuns + 1 ]

\* addClassWithAnimation(element, 'visible') of part_000: at once when reduced
\* motion is preferred, in the next animation frame otherwise
addClassWithAnimation(st, element) ==
  IF st.reducedMotion
    THEN [st EXCEPT !.visible = st.visible \cup {element}]
    ELSE [st EXCEPT !.classFrames = st.classFrames \cup {element}]

\* Mutant of statsObserverEntry: STATE.statsAnimated is not consulted.
statsObserverEntryNoFlag(st, entry) ==
  IF entry.isIntersecting
    THEN animateStats([st EXCEPT !.statsAnimated = TRUE])
    ELSE st

\* One entry of the observer callback of initStatsCounter (script.js)
statsObserverEntry(st, entry) ==
  IF entry.isIntersecting /\ ~st.statsAnimated
    THEN animateStats([st EXCEPT !.statsAnimated = TRUE])
    ELSE st

\* Mutant of scrollObserverEntry: an element that leaves the viewport loses
\* the class again.
scrollObserverEntryToggle(st, entry) ==
  IF entry.isIntersecting
    THEN [st EXCEPT !.visible = st.visible \cup {entry.target}]
    ELSE [st EXCEPT !.visible = st.visible \ {entry.target}]

\* One entry of the observer callback of initScrollAnimations (script.js)
scrollObserverEntry(st, entry) ==
  IF entry.isIntersecting
    THEN [st EXCEPT !.visible = st.visible \cup {entry.target}]
    ELSE st

\* Mutant of intersectionObserverEntry: STATE.statsAnimated is not consulted.
intersectionObserverEntryNoFlag(st, entry) ==
  IF entry.isIntersecting
    THEN LET s1 == addClassWithAnimation(st, entry.target) IN
         IF entry.target = "stats-container"
           THEN [animateStats(s1) EXCEPT !.statsAnimated = TRUE]
           ELSE s1
    ELSE st

\* One entry of the observer callback of setupIntersectionObserver (part_000)
intersectionObserverEntry(st, entry) ==
  IF entry.isIntersecting
    THEN LET s1 == addClassWithAnimation(st, entry.target) IN
         IF entry.target = "stats-container" /\ ~s1.statsAnimated
           THEN [animateStats(s1) EXCEPT !.statsAnimated = TRUE]
           ELSE s1
    ELSE st

\* entries.forEach(...) of the observer that reports the statistics
RECURSIVE forEachEntry(_, _, _)
forEachEntry(v, st, entries) ==
  IF entries = << >> THEN st
  ELSE forEachEntry(v,
         IF v = "script" THEN statsObserverEntry(st, Head(entries))
                         ELSE intersectionObserverEntry(st, Head(entries)),
         Tail(entries))

\* entries.forEach(...) of the observer of initScrollAnimations (script.js)
RECURSIVE forEachScrollEntry(_, _)
forEachScrollEntry(st, entries) ==
  IF entries = << >> THEN st
  ELSE forEachScrollEntry(scrollObserverEntry(st, Head(entries)), Tail(entries))

\* The elements the observer watches: the .stat-number elements (script.js);
\* the fade-in elements and the .stats-container (part_000)
ObservedTargets(v) ==
  IF v = "script" THEN {"stat-number"} ELSE {"stats-container", "fade-in"}

\* The elements the observer of initScrollAnimations watches (script.js)
ScrollTargets == {"fade-in"}

EntriesOver(elements) ==
  UNION {[1..n -> [target : elements, isIntersecting : BOOLEAN]] : n \in 1..MaxEntries}

EntryLists(v) == EntriesOver(ObservedTargets(v))

\* The observer whose callback starts the statistics
StatsObserver(v) == IF v = "script" THEN "stats" ELSE "fade"

\* The observers init() (script.js) / initScrollEffects() (part_000) create, in
\* the order of their creation: part_000 sets no fade-in observer up when
\* reduced motion is preferred at that moment.
ObserversCreated(v, reduced) ==
  IF v = "script" THEN << "stats", "scroll" >>
  ELSE IF reduced THEN << "section" >>
  ELSE << "fade", "section" >>

\* STATE.observers after initialization: part_000 pushes every observer it
\* creates, script.js keeps none.
ObserversKept(v, reduced) ==
  IF v = "script" THEN << >> ELSE ObserversCreated(v, reduced)

Range(seq) == {seq[i] : i \in 1..Len(seq)}

\* The observer that can report the statistics is connected
observing == StatsObserver(variant) \in connected

\* The state after init() (script.js) / initApp() (part_000) has run, for a
\* document with n hero letters and data-count values among counts
StatsStart(variants, n, counts) ==
  /\ CycleAtLoad({FALSE}, {FALSE}, {FALSE})
  /\ WrappersIdle
  /\ PageIdle
  /\ variant \in variants
  /\ statsMedia \in BOOLEAN
  /\ reducedMotion = statsMedia
  /\ observers = ObserversKept(variant, reducedMotion)
  /\ connected = Range(ObserversCreated(variant, reducedMotion))
  /\ visible = {}
  /\ classFrames = {}
  /\ statsAnimated = FALSE
  /\ targets \in [Counters -> counts]
  /\ display = [c \in Counters |-> NoDisplay]
  /\ frames = {}
  /\ statsRuns = 0
  /\ completed = {}
  /\ unloaded = FALSE
  /\ reported = {}
  /\ sheenTimers = SheenAtLoad(n, reducedMotion)

\* The hero title of the statistics specifications has no .hero-letter.
StatsInit == StatsStart({"script", "part000"}, 0, TargetCounts)

\* What an observer callback reads and writes
StatsCur ==
  [ reducedMotion |-> reducedMotion,
    visible       |-> visible,
    classFrames   |-> classFrames,
    statsAnimated |-> statsAnimated,
    frames        |-> frames,
    statsRuns     |-> statsRuns,
    now           |-> 0 ]

StatsBecomes(st) ==
  /\ visible' = st.visible
  /\ classFrames' = st.classFrames
  /\ statsAnimated' = st.statsAnimated
  /\ frames' = st.frames
  /\ statsRuns' = st.statsRuns
  /\ UNCHANGED << variant, statsMedia, reducedMotion, observers, connected, targets,
                  display, completed, unloaded, sheenTimers >>
  /\ UNCHANGED << cycleVars, wrapperVars, pageVars >>

\* The targets the entries report as intersecting
Intersecting(entries) ==
  {entries[i].target : i \in {j \in 1..Len(entries) : entries[j].isIntersecting}}

\* The elements a fade-in observer of the variant v reveals: the elements of
\* animatedElements (script.js) / elementsToObserve (part_000)
FadeTargets(v) == IF v = "script" THEN ScrollTargets ELSE ObservedTargets(v)

\* What performance.now() may return in the callback that receives the
\* entries: the clock is read only when the callback calls animateStats.
SampleLags(entries) ==
  IF forEachEntry(variant, StatsCur, entries).statsRuns = statsRuns
    THEN {0}
    ELSE 0..MaxSampleLag

\* The intersection observer that reports the statistics delivers entries
IntersectionCallback ==
  /\ observing
  /\ \E entries \in EntryLists(variant) : \E lag \in SampleLags(entries) :
       /\ StatsBecomes(forEachEntry(variant, [StatsCur EXCEPT !.now = lag], entries))
       /\ reported' = reported \cup (Intersecting(entries) \cap FadeTargets(variant))

\* The intersection observer of initScrollAnimations delivers entries
ScrollAnimationsCallback ==
  /\ variant = "script"
  /\ "scroll" \in connected
  /\ \E entries \in EntriesOver(ScrollTargets) :
       /\ StatsBecomes(forEachScrollEntry(StatsCur, entries))
       /\ reported' = reported \cup Intersecting(entries)

\* The callback that writes an element last in a frame: callbacks run in the
\* order they were requested, the one of the latest run last.
LastCallback(c) ==
  CHOOSE f \in frames : f.el = c /\ \A g \in frames : g.el = c => f.elapsed <= g.elapsed

\* An animation frame: every pending callback runs with the frame's timestamp
AnimationFrame ==
  /\ frames # {} \/ classFrames # {}
  /\ \E dt \in 1..MaxFrameGap :
       /\ display' = [c \in Counters |->
                        IF \E f \in frames : f.el = c
                          THEN updateNumber(variant, targets[c], LastCallback(c).elapsed + dt)
                          ELSE display[c]]
       /\ frames' = {[f EXCEPT !.elapsed = f.elapsed + dt] :
                       f \in {g \in frames : Progress(g.elapsed + dt) < StatsSteps}}
       /\ completed' = completed \cup
                         {f.el : f \in {g \in frames : Progress(g.elapsed + dt) >= StatsSteps}}
  /\ visible' = visible \cup classFrames
  /\ classFrames' = {}
  /\ UNCHANGED << variant, statsMedia, reducedMotion, observers, connected,
                  statsAnimated, targets, statsRuns, unloaded, reported, sheenTimers >>
  /\ UNCHANGED << cycleVars, wrapperVars, pageVars >>

\* The user changes the reduced-motion setting: part_000 follows it in
\* STATE.reducedMotion, script.js sets STATE.reducedMotion in init() only.
StatsMotionChange ==
  /\ statsMedia =>
       \A l \in DOMAIN sheenTimers.starts :
         sheenTimers.starts[l] + sheenTimers.loops[l] < MaxSheenTimers
  /\ statsMedia' = ~statsMedia
  /\ reducedMotion' = IF variant = "part000" THEN ~statsMedia ELSE reducedMotion
  /\ sheenTimers' = IF variant = "part000"
                      THEN restartAnimations(sheenTimers, ~statsMedia)
                      ELSE sheenTimers
  /\ UNCHANGED << variant, observers, connected, visible, classFrames, statsAnimated,
                  targets, display, frames, statsRuns, completed, unloaded, reported >>
  /\ UNCHANGED << cycleVars, wrapperVars, pageVars >>

\* cleanup() of part_000: every observer of STATE.observers is disconnected
\* and the list is emptied
cleanup(obs, conn) ==
  [ observers |-> << >>, connected |-> conn \ Range(obs) ]

\* window 'beforeunload': cleanup() in part_000; stopMultilingualAnimation()
\* in script.js, which touches no observer (the cycle is not part of this
\* specification: animationInterval is null and the call returns at once)
StatsBeforeUnload ==
  /\ IF variant = "part000"
       THEN /\ observers' = cleanup(observers, connected).observers
            /\ connected' = cleanup(observers, connected).connected
       ELSE UNCHANGED << observers, connected >>
  /\ unloaded' = TRUE
  /\ UNCHANGED << variant, statsMedia, reducedMotion, visible, classFrames,
                  statsAnimated, targets, display, frames, statsRuns, completed,
                  reported, sheenTimers >>
  /\ UNCHANGED << cycleVars, wrapperVars, pageVars >>

StatsNext ==
  \/ IntersectionCallback
  \/ ScrollAnimationsCallback
  \/ AnimationFrame
  \/ StatsMotionChange
  \/ StatsBeforeUnload

StatsSpec == StatsInit /\ [][StatsNext]_vars

\* The sheen of the hero letters of part_000: the start timeout of the letter
\* l is due
SheenStartTimeout ==
  /\ \E l \in DOMAIN sheenTimers.starts :
       /\ sheenTimers.starts[l] > 0
       /\ sheenTimers' = sheenStartCallback(sheenTimers, reducedMotion, l)
  /\ UNCHANGED << variant, statsMedia, reducedMotion, observers, connected, visible,
                  classFrames, statsAnimated, targets, display, frames, statsRuns,
                  completed, unloaded, reported >>
  /\ UNCHANGED << cycleVars, wrapperVars, pageVars >>

\* A timeout of animateSheen of the letter l is due
SheenLoopStep(l) ==
  /\ sheenTimers.loops[l] > 0
  /\ sheenTimers' = sheenLoopCallback(sheenTimers, reducedMotion, l)
  /\ UNCHANGED << variant, statsMedia, reducedMotion, observers, connected, visible,
                  classFrames, statsAnimated, targets, display, frames, statsRuns,
                  completed, unloaded, reported >>
  /\ UNCHANGED << cycleVars, wrapperVars, pageVars >>

SheenLoopTimeout == \E l \in DOMAIN sheenTimers.loops : SheenLoopStep(l)

\* part_000 after initApp(), the hero title and its letters present
SheenInit == StatsStart({"part000"}, NumLetters, {0})

SheenNext ==
  \/ StatsMotionChange
  \/ SheenStartTimeout
  \/ SheenLoopTimeout

SheenSpec == SheenInit /\ [][SheenNext]_vars

\* The observers with the browser's frame scheduling: a requested animation
\* frame callback runs in the next frame the browser renders.
RevealLiveSpec == StatsInit /\ [][StatsNext]_vars /\ WF_vars(AnimationFrame)

\* ------------------------------------------------------------------------
\* The wrappers on their own: scroll and resize events, timers, time
\* ------------------------------------------------------------------------
WrapperInit ==
  /\ CycleAtLoad({FALSE}, {FALSE}, {FALSE})
  /\ StatsIdle
  /\ WrappersIdle
  /\ PageIdle

WrapperNext ==
  \/ WrapperEvent
  \/ WrapperTimeout
  \/ WrapperTimePasses

WrapperSpec == WrapperInit /\ [][WrapperNext]_vars

\* ------------------------------------------------------------------------
\* init() of script.js and initApp() of part_000: the initializers in order
\* ------------------------------------------------------------------------
\* The elements the initializers look up ("hero-title" stands for #hero-title
\* with its .hero-letter elements, "section" for the section[id] elements)
Elements ==
  { "hero-text", "navbar", "nav-menu", "mobile-menu-btn", "scroll-down",
    "stat-number", "contact-form", "back-to-top", "fade-in", "stats-container",
    "hero-title", "section", "team-grid" }

\* new IntersectionObserver(callback, options): a ReferenceError where the
\* platform does not define it
newIntersectionObserver(pg, name) ==
  IF pg.ioSupport
    THEN [pg EXCEPT !.connected = pg.connected \cup {name}]
    ELSE [pg EXCEPT !.thrown = TRUE]

\* elements.forEach(element => observer.observe(element))
observe(pg, elements) ==
  [pg EXCEPT !.observed = pg.observed \cup (elements \cap pg.inDocument)]

\* handleMotionPreferenceChange() of script.js: the media-query listener
handleMotionPreferenceChange(pg) ==
  [pg EXCEPT !.listeners = pg.listeners \cup {"motion-preference"}]

\* initAccessibility() of part_000
initAccessibility(pg) ==
  [pg EXCEPT !.reducedMotion = pg.media,
             !.listeners = pg.listeners \cup {"accessibility"}]

\* initNavigation(), the same in both variants
initNavigation(pg) ==
  IF {"navbar", "nav-menu", "mobile-menu-btn"} \subseteq pg.inDocument
    THEN [pg EXCEPT !.listeners = pg.listeners \cup {"navigation"}]
    ELSE pg

\* initHeroAnimations(): script.js needs no element; part_000 returns when
\* the title or its letters are missing and starts the sheen timers unless
\* reduced motion is preferred
initHeroAnimations(v, pg) ==
  LET button == IF "scroll-down" \in pg.inDocument THEN {"scroll-down"} ELSE {}
      sheen  == IF pg.reducedMotion THEN {} ELSE {"sheen"}
  IN  IF v = "script"
        THEN [pg EXCEPT !.listeners = pg.listeners \cup button]
        ELSE IF "hero-title" \notin pg.inDocument THEN pg
        ELSE [pg EXCEPT !.listeners = pg.listeners \cup button \cup sheen]

\* initStatsCounter() of script.js
initStatsCounter(pg) ==
  IF "stat-number" \notin pg.inDocument THEN pg
  ELSE LET p1 == newIntersectionObserver(pg, "stats") IN
       IF p1.thrown THEN p1 ELSE observe(p1, {"stat-number"})

\* initScrollAnimations() of script.js
initScrollAnimations(pg) ==
  IF "fade-in" \notin pg.inDocument THEN pg
  ELSE LET p1 == newIntersectionObserver(pg, "scroll") IN
       IF p1.thrown THEN p1 ELSE observe(p1, ScrollTargets)

\* setupIntersectionObserver() of part_000
setupIntersectionObserver(pg) ==
  IF pg.reducedMotion THEN pg
  ELSE LET p1 == newIntersectionObserver(pg, "fade") IN
       IF p1.thrown THEN p1
       ELSE [observe(p1, ObservedTargets("part000"))
               EXCEPT !.observers = Append(p1.observers, "fade")]

\* setupSectionDetection() of part_000
setupSectionDetection(pg) ==
  IF "section" \notin pg.inDocument THEN pg
  ELSE LET p1 == newIntersectionObserver(pg, "section") IN
       IF p1.thrown THEN p1
       ELSE [observe(p1, {"section"}) EXCEPT !.observers = Append(p1.observers, "section")]

\* initScrollEffects() of part_000
initScrollEffects(pg) ==
  LET p1 == setupIntersectionObserver(pg) IN
  IF p1.thrown THEN p1 ELSE setupSectionDetection(p1)

\* initTeamSection() of part_000
initTeamSection(pg) ==
  IF "team-grid" \notin pg.inDocument THEN pg
  ELSE [pg EXCEPT !.listeners = pg.listeners \cup {"team"}]

\* initContactForm(), the same guard in both variants
initContactForm(pg) ==
  IF "contact-form" \notin pg.inDocument THEN pg
  ELSE [pg EXCEPT !.listeners = pg.listeners \cup {"contact-form"}]

\* Mutant of initBackToTop: the button is used without the guard.
initBackToTopNoGuard(pg) ==
  IF "back-to-top" \notin pg.inDocument
    THEN [pg EXCEPT !.listeners = pg.listeners \cup {"back-to-top"}, !.thrown = TRUE]
    ELSE [pg EXCEPT !.listeners = pg.listeners \cup {"back-to-top"}]

\* initBackToTop(), the same guard in both variants
initBackToTop(pg) ==
  IF "back-to-top" \notin pg.inDocument THEN pg
  ELSE [pg EXCEPT !.listeners = pg.listeners \cup {"back-to-top"}]

\* setupBasicFallbacks() of part_000
setupBasicFallbacks(pg) ==
  [pg EXCEPT !.listeners = pg.listeners
       \cup (IF {"mobile-menu-btn", "nav-menu"} \subseteq pg.inDocument
               THEN {"fallback-menu"} ELSE {})
       \cup (IF "contact-form" \in pg.inDocument THEN {"fallback-form"} ELSE {})]

\* The calls of init() (script.js:765-776) and of initApp() (part_000:1280-1286)
Initializers(v) ==
  IF v = "script"
    THEN << "initMultilingualAnimation", "handleMotionPreferenceChange", "initNavigation",
            "initHeroAnimations", "initStatsCounter", "initContactForm", "initBackToTop",
            "initScrollAnimations" >>
    ELSE << "initAccessibility", "initNavigation", "initHeroAnimations",
            "initScrollEffects", "initTeamSection", "initContactForm", "initBackToTop" >>

call(v, name, pg) ==
  CASE name = "initMultilingualAnimation" ->
         [pg EXCEPT !.cycle = initMultilingualAnimation(pg.cycle, pg.media)]
    [] name = "handleMotionPreferenceChange" -> handleMotionPreferenceChange(pg)
    [] name = "initAccessibility" -> initAccessibility(pg)
    [] name = "initNavigation" -> initNavigation(pg)
    [] name = "initHeroAnimations" -> initHeroAnimations(v, pg)
    [] name = "initStatsCounter" -> initStatsCounter(pg)
    [] name = "initScrollAnimations" -> initScrollAnimations(pg)
    [] name = "initScrollEffects" -> initScrollEffects(pg)
    [] name = "initTeamSection" -> initTeamSection(pg)
    [] name = "initContactForm" -> initContactForm(pg)
    [] name = "initBackToTop" -> initBackToTop(pg)

\* The statements of a function body in order; an exception ends the body
RECURSIVE sequence(_, _, _)
sequence(v, names, pg) ==
  IF names = << >> \/ pg.thrown THEN pg
  ELSE sequence(v, Tail(names), call(v, Head(names), pg))

\* init() of script.js: the exception of an initializer leaves init()
init(pg) ==
  LET p1 == sequence("script", Initializers("script"),
                     [pg EXCEPT !.reducedMotion = pg.media])
  IN  [p1 EXCEPT !.result = IF p1.thrown THEN "uncaught" ELSE "done"]

\* initApp() of part_000: try { ... } catch { setupBasicFallbacks() }
initApp(pg) ==
  LET p1 == sequence("part000", Initializers("part000"), pg)
  IN  IF p1.thrown
        THEN [setupBasicFallbacks(p1) EXCEPT !.result = "caught"]
        ELSE [p1 EXCEPT !.result = "done"]

\* A document, a platform and a preference, before the script has run
PageInit ==
  /\ CycleAtLoad({FALSE}, BOOLEAN, {FALSE, TRUE})
  /\ WrappersIdle
  /\ variant \in {"script", "part000"}
  /\ statsMedia = mediaReduced
  /\ reducedMotion = FALSE
  /\ observers = << >>
  /\ connected = {}
  /\ visible = {}
  /\ classFrames = {}
  /\ statsAnimated = FALSE
  /\ targets = << >>
  /\ display = << >>
  /\ frames = {}
  /\ statsRuns = 0
  /\ completed = {}
  /\ unloaded = FALSE
  /\ reported = {}
  /\ sheenTimers = NoSheen
  /\ UseIdle
  /\ inDocument \in SUBSET Elements
  /\ hero.present = ("hero-text" \in inDocument)
  /\ ioSupport \in BOOLEAN
  /\ listeners = {}
  /\ observed = {}
  /\ initResult = "pending"

\* document 'DOMContentLoaded' -> init() / initApp(), the whole of it
RunInit ==
  /\ initResult = "pending"
  /\ LET pg == [ inDocument |-> inDocument, ioSupport |-> ioSupport,
                 media |-> mediaReduced, reducedMotion |-> reducedMotion,
                 observers |-> observers, connected |-> connected,
                 observed |-> observed, listeners |-> listeners,
                 thrown |-> FALSE, result |-> initResult, cycle |-> Cur ]
         after == IF variant = "script" THEN init(pg) ELSE initApp(pg)
     IN  /\ reducedMotion' = after.reducedMotion
         /\ observers' = after.observers
         /\ connected' = after.connected
         /\ observed' = after.observed
         /\ listeners' = after.listeners
         /\ initResult' = after.result
         /\ sheenTimers' = IF "sheen" \in after.listeners
                             THEN SheenAtLoad(NumLetters, FALSE)
                             ELSE sheenTimers
         /\ CycleBecomes(after.cycle)
  /\ loaded' = TRUE
  /\ UNCHANGED << hidden, mediaReduced, envEvents >>
  /\ UNCHANGED << variant, statsMedia, visible, classFrames, statsAnimated, targets,
                  display, frames, statsRuns, completed, unloaded, reported >>
  /\ UNCHANGED << inDocument, ioSupport, nav, form >>
  /\ UNCHANGED wrapperVars

PageNext == RunInit

PageSpec == PageInit /\ [][PageNext]_vars

\* ------------------------------------------------------------------------
\* The page in use: navigation, section tracker, menu, form submission
\* (NavSpec); the contact form with its editing and validation (FormSpec)
\* ------------------------------------------------------------------------
AllFormElements == FieldNames \cup {"submit-btn", "success-message"}

\* What the handlers of the page in use read and write
UiCur == [nav |-> nav, form |-> form]

\* What a handler of the page in use leaves alone
UiFrame ==
  /\ UNCHANGED << inDocument, ioSupport, listeners, observed, initResult >>
  /\ UNCHANGED << cycleVars, statsVars, wrapperVars >>

UiBecomes(u) ==
  /\ nav' = u.nav
  /\ form' = u.form
  /\ UiFrame

\* The document of the page in use: every element the initializers look up
\* but the hero text and the hero title, whose timers are not part of it
NavDocument == Elements \ {"hero-text", "hero-title"}

\* What init() (script.js) / initApp() (part_000) leaves on that document with
\* motion allowed, on a platform with IntersectionObserver (io) or without
AfterInit(v, io) ==
  LET pg == [ inDocument |-> NavDocument, ioSupport |-> io,
              media |-> FALSE, reducedMotion |-> FALSE,
              observers |-> << >>, connected |-> {},
              observed |-> {}, listeners |-> {},
              thrown |-> FALSE, result |-> "pending", cycle |-> Cur ]
  IN  IF v = "script" THEN init(pg) ELSE initApp(pg)

\* The state after init() (script.js) / initApp() (part_000) has run with
\* motion allowed, the form empty or filled in
NavInit ==
  /\ CycleAtLoad({FALSE}, {FALSE}, {FALSE})
  /\ WrappersIdle
  /\ variant \in {"script", "part000"}
  /\ inDocument = NavDocument
  /\ ioSupport \in BOOLEAN
  /\ listeners = AfterInit(variant, ioSupport).listeners
  /\ observed = AfterInit(variant, ioSupport).observed
  /\ initResult = AfterInit(variant, ioSupport).result
  /\ statsMedia = FALSE
  /\ reducedMotion = FALSE
  /\ observers = AfterInit(variant, ioSupport).observers
  /\ connected = AfterInit(variant, ioSupport).connected
  /\ visible = {}
  /\ classFrames = {}
  /\ statsAnimated = FALSE
  /\ targets = << >>
  /\ display = << >>
  /\ frames = {}
  /\ statsRuns = 0
  /\ completed = {}
  /\ unloaded = FALSE
  /\ reported = {}
  /\ sheenTimers = NoSheen
  /\ nav = NavAtLoad
  /\ \E values \in {Blank, Filled} : form = FormAtLoad(AllFormElements, FieldNames, values)

\* The section observer of part_000 delivers entries
SectionCallback ==
  /\ variant = "part000"
  /\ "section" \in connected
  /\ \E entries \in EntriesOver(Sections) :
       UiBecomes([UiCur EXCEPT !.nav = forEachSectionEntry(nav, entries)])

\* A click on a navigation link
NavigationClick ==
  \E link \in NavLinks :
    /\ nav' = handleNavigationClick(nav, link)
    /\ UNCHANGED form
    /\ UiFrame

\* A click on the mobile menu button
MenuButtonClick ==
  /\ nav.isNavOpen \/ nav.focusTimers < MaxFocusTimers
  /\ UiBecomes([UiCur EXCEPT !.nav = menuButtonListeners(nav, listeners)])

\* A click outside the menu and its button
OutsideClick ==
  /\ nav' = documentClickOutside(nav)
  /\ UNCHANGED form
  /\ UiFrame

\* The Escape key is pressed
EscapeKey ==
  /\ nav' = escapeKeydown(nav)
  /\ UNCHANGED form
  /\ UiFrame

\* The debounced resize listener runs
ResizeSettled ==
  \E wide \in BOOLEAN :
    /\ nav' = resizeSettled(nav, wide)
    /\ UNCHANGED form
    /\ UiFrame

\* The timer of openMobileMenu focuses the first navigation link
FocusTimeout ==
  /\ nav.focusTimers > 0
  /\ UiBecomes([UiCur EXCEPT !.nav.focus = "nav-link",
                             !.nav.focusTimers = nav.focusTimers - 1])

\* The throttled scroll handler of the navbar runs
NavbarScroll ==
  \E y \in ScrollOffsets :
    /\ nav' = handleScroll(nav, y)
    /\ UNCHANGED form
    /\ UiFrame

\* The submit listener setupBasicFallbacks() of part_000 puts on the form:
\* preventDefault() and an alert
fallbackSubmit(fm) == [fm EXCEPT !.alerted = TRUE]

\* A submit event runs the listeners registered on the form, in the order of
\* their registration
submitListeners(v, ui, registered) ==
  LET u1 == IF "contact-form" \in registered THEN handleFormSubmission(v, ui) ELSE ui
  IN  IF "fallback-form" \in registered
        THEN [u1 EXCEPT !.form = fallbackSubmit(u1.form)]
        ELSE u1

\* A submit event of the contact form.  The browser submits no form whose
\* submit button is disabled; where no listener is registered the browser's
\* own submission leaves the page.
SubmitEvent ==
  /\ {"contact-form", "fallback-form"} \cap listeners # {}
  /\ "submit-btn" \in form.elements
  /\ ~form.submitBtn.disabled
  /\ form.submitTimers + form.hideTimers < MaxHideTimers
  /\ UiBecomes(submitListeners(variant, UiCur, listeners))

\* The submission delay of a pending submission has passed
SubmissionTimeout ==
  /\ form.submitTimers > 0
  /\ UiBecomes([UiCur EXCEPT !.form = submissionSettles(variant, form)])

\* The timer of showSuccessMessage fires
SuccessHideTimeout ==
  /\ form.hideTimers > 0
  /\ UiBecomes([UiCur EXCEPT !.form = hideSuccessMessage(form)])

\* window 'beforeunload' with the page in use: cleanup() in part_000
NavBeforeUnload ==
  /\ ~unloaded
  /\ IF variant = "part000"
       THEN /\ observers' = cleanup(observers, connected).observers
            /\ connected' = cleanup(observers, connected).connected
       ELSE UNCHANGED << observers, connected >>
  /\ unloaded' = TRUE
  /\ UNCHANGED << variant, statsMedia, reducedMotion, visible, classFrames,
                  statsAnimated, targets, display, frames, statsRuns, completed,
                  reported, sheenTimers >>
  /\ UNCHANGED << cycleVars, wrapperVars, pageVars >>

NavNext ==
  \/ SectionCallback
  \/ NavigationClick
  \/ MenuButtonClick
  \/ OutsideClick
  \/ EscapeKey
  \/ ResizeSettled
  \/ FocusTimeout
  \/ NavbarScroll
  \/ SubmitEvent
  \/ SubmissionTimeout
  \/ SuccessHideTimeout
  \/ NavBeforeUnload

NavSpec == NavInit /\ [][NavNext]_vars

\* ------------------------------------------------------------------------
\* The contact form on its own: editing, validation, submission (FormSpec)
\* ------------------------------------------------------------------------
\* Edits of a field the user makes
MaxEdits == 2

\* The state after init() / initApp() has run, for each document, with the
\* subject required or not, the form empty or filled in
FormInit ==
  /\ CycleAtLoad({FALSE}, {FALSE}, {FALSE})
  /\ WrappersIdle
  /\ inDocument = {"contact-form"}
  /\ ioSupport = TRUE
  /\ listeners = {"contact-form"}
  /\ observed = {}
  /\ initResult = "done"
  /\ variant \in {"script", "part000"}
  /\ statsMedia = FALSE
  /\ reducedMotion = FALSE
  /\ observers = << >>
  /\ connected = {}
  /\ visible = {}
  /\ classFrames = {}
  /\ statsAnimated = FALSE
  /\ targets = << >>
  /\ display = << >>
  /\ frames = {}
  /\ statsRuns = 0
  /\ completed = {}
  /\ unloaded = FALSE
  /\ reported = {}
  /\ sheenTimers = NoSheen
  /\ nav = NavAtLoad
  /\ \E elements \in FormDocuments, required \in {FieldNames, FieldNames \ {"subject"}},
        values \in {Blank, Filled} :
       form = FormAtLoad(elements, required, values)

\* The input listener of a field: clearFieldError at once (script.js); a
\* debounced clearFieldError and validateField (part_000)
inputListener(v, fm, fieldName) ==
  IF v = "script" THEN clearFieldError(v, fm, fieldName)
                  ELSE [fm EXCEPT !.inputTimers = fm.inputTimers \cup {fieldName}]

\* The debounced input callback of part_000
debouncedInput(v, fm, fieldName) ==
  validateField(v, clearFieldError(v, [fm EXCEPT !.inputTimers = fm.inputTimers \ {fieldName}],
                                   fieldName),
                fieldName)

\* The user changes the value of a field
FieldInput ==
  /\ form.edits < MaxEdits
  /\ \E f \in FieldNames \cap form.elements, value \in FieldValues :
       /\ value # form.values[f]
       /\ form' = inputListener(variant,
                    [form EXCEPT !.values[f] = value, !.edits = form.edits + 1], f)
  /\ UNCHANGED nav
  /\ UiFrame

\* The debounce delay after the last input of a field has passed (part_000)
InputTimeout ==
  /\ form.inputTimers # {}
  /\ \E f \in form.inputTimers : form' = debouncedInput(variant, form, f)
  /\ UNCHANGED nav
  /\ UiFrame

\* A field loses the focus: the blur listener validates it
FieldBlur ==
  /\ \E f \in FieldNames \cap form.elements : form' = validateField(variant, form, f)
  /\ UNCHANGED nav
  /\ UiFrame

FormNext ==
  \/ FieldInput
  \/ InputTimeout
  \/ FieldBlur
  \/ SubmitEvent
  \/ SubmissionTimeout
  \/ SuccessHideTimeout

FormSpec == FormInit /\ [][FormNext]_vars

\* ------------------------------------------------------------------------
\* Properties of the language cycle (Spec)
\* ------------------------------------------------------------------------
Shows(element, i) ==
  /\ element.text = Language(i).text
  /\ element.lang = Language(i).lang
  /\ element.ariaLabel = LabelOf(Language(i))

TransitionInProgress == timeouts # {} \/ hero.classes # {}

\* C1: at most one recurring interval is live at any time, and a live
\* interval is the one whose handle animationInterval holds.
C1_OneTrackedInterval ==
  /\ Cardinality(intervals) <= 1
  /\ \A t \in intervals : t.id = animationInterval

\* No interval but the tracked one is live (C1's duplicate timers are absent).
NoStrayInterval == \A t \in intervals : t.id = animationInterval

\* C2: while prefersReducedMotion stays true the cycle starts no animation:
\* no fade class is added to the hero element and its text stays LANGUAGES[0],
\* also when the preference flips between a tick and its half-fade timeout.
\* Stated for the steps with no interval live, so that a violation does not
\* rest on a timer that C1 or C3 left running.
C2_NoAnimationWhileReduced ==
  [][(hero.present /\ prefersReducedMotion /\ prefersReducedMotion'
        /\ intervals = {} /\ intervals' = {})
       => /\ hero'.text = Language(0).text
          /\ hero'.classes \subseteq hero.classes]_vars

\* A run of initMultilingualAnimation() that finds reduced motion preferred.
InitRunsReduced ==
  /\ hero.present
  /\ mediaReduced
  /\ DOMContentLoaded \/ (VisibilityVisible /\ ~prefersReducedMotion)

\* C3: when initMultilingualAnimation runs with reduced motion preferred the
\* hero text and lang become LANGUAGES[0], animationInterval is null and no
\* interval is live afterwards.
C3_ReducedInitLeavesNoTimer ==
  [][InitRunsReduced
       => /\ hero'.text = Language(0).text
          /\ hero'.lang = Language(0).lang
          /\ animationInterval' = 0
          /\ intervals' = {}]_vars

\* A start of the cycle from the stopped state.
Restart == hero.present /\ animationInterval = 0 /\ animationInterval' # 0

\* C4: a restart after a stop resumes from currentLanguageIndex (not from 0)
\* and leaves exactly one interval timer active.
C4_RestartResumesWithOneTimer ==
  [][Restart
       => /\ currentLanguageIndex' = currentLanguageIndex
          /\ Shows(hero', currentLanguageIndex)
          /\ Cardinality(intervals') = 1]_vars

\* C5: in an undisturbed run started at index 0, after N periods and the end
\* of the N-th transition the hero shows LANGUAGES[N mod LANGUAGES.length].
C5_ShowsEntryNModLength ==
  (run = "single" /\ ~TransitionInProgress)
    => /\ Shows(hero, periods % Len(LANGUAGES))
       /\ currentLanguageIndex = periods % Len(LANGUAGES)

C5_Witness ==
  /\ run = "single"
  /\ ~TransitionInProgress
  /\ periods = Len(LANGUAGES) + 1
  /\ Shows(hero, 1)

PreviousLanguageIndex(j) == (j + Len(LANGUAGES) - 1) % Len(LANGUAGES)

\* C6: at the half-fade point text, lang and aria-label are those of entry j,
\* fade-out is gone and fade-in is present; before that point the text is
\* still that of entry i.  The last part is stated for the states without a
\* stray interval, so that a violation does not rest on the duplicate timers
\* of C1.
C6_SwapAtHalfFadeTextBefore ==
  /\ [](NoStrayInterval
          => \A t \in timeouts :
               t.kind = "swap"
                 => hero.text = Language(PreviousLanguageIndex(t.idx)).text)
  /\ [][\A t \in timeouts :
          HalfFadeStep(t) => /\ Shows(hero', t.idx)
                             /\ "fade-out" \notin hero'.classes
                             /\ "fade-in" \in hero'.classes]_vars

\* What does hold of a transition (checked, no claim of its own): the tick
\* leaves text, lang and aria-label as they were, adds fade-out and schedules
\* the swap to entry j half a fade later; the swap happens exactly then; in an
\* undisturbed run the hero shows entry i until then.
TransitionSwapsAtHalfFade ==
  /\ [][IntervalTick
          => /\ hero'.text = hero.text
             /\ hero'.lang = hero.lang
             /\ hero'.ariaLabel = hero.ariaLabel
             /\ "fade-out" \in hero'.classes
             /\ [kind |-> "swap", idx |-> currentLanguageIndex',
                 rem |-> (FADE_DURATION \div 2) \div TimeUnit] \in timeouts']_vars
  /\ [](\A t \in timeouts :
          t.kind = "swap" => t.rem <= (FADE_DURATION \div 2) \div TimeUnit)
  /\ [][\A t \in timeouts :
          HalfFadeStep(t) => /\ Shows(hero', t.idx)
                             /\ "fade-out" \notin hero'.classes
                             /\ "fade-in" \in hero'.classes]_vars
  /\ [](run = "single"
          => \A t \in timeouts :
               t.kind = "swap" => /\ Shows(hero, PreviousLanguageIndex(t.idx))
                                  /\ "fade-out" \in hero.classes)

TransitionSwapReached ==
  /\ run = "single"
  /\ currentLanguageIndex = 2
  /\ Shows(hero, 2)
  /\ hero.classes = {"fade-in"}
  /\ [kind |-> "cleanup", idx |-> 0, rem |-> FadeDelay] \in timeouts

\* C7: currentLanguageIndex is always a valid index into LANGUAGES and every
\* interval tick advances it by one modulo the length, wrapping to 0.
C7_IndexValidAndWraps ==
  /\ [](currentLanguageIndex \in 0..(Len(LANGUAGES) - 1))
  /\ [][IntervalTick
          => currentLanguageIndex' =
               IF currentLanguageIndex = Len(LANGUAGES) - 1
                 THEN 0 ELSE currentLanguageIndex + 1]_vars

C7_Witness ==
  /\ run = "single"
  /\ periods = Len(LANGUAGES)
  /\ currentLanguageIndex = 0

\* C17: whenever the page is hidden or reduced motion is preferred
\* animationInterval is null and no language-cycle interval is live, and an
\* explicit stop (beforeunload) leaves the handle null.
C17_HandleNullUnlessRunning ==
  /\ []((hidden \/ prefersReducedMotion)
          => (animationInterval = 0 /\ intervals = {}))
  /\ [][BeforeUnload => animationInterval' = 0]_vars

\* ------------------------------------------------------------------------
\* Properties of the statistics counter (StatsSpec)
\* ------------------------------------------------------------------------
\* C8: the counting sequence is started at most once per page life, by the
\* first intersecting report, and STATE.statsAnimated is true from then on.
C8_StatsStartedOnce ==
  /\ [](statsRuns <= 1 /\ (statsAnimated <=> statsRuns = 1))
  /\ [][statsAnimated => (statsAnimated' /\ statsRuns' = statsRuns)]_vars

C8_Witness ==
  /\ variant = "part000"
  /\ statsAnimated
  /\ statsRuns = 1
  /\ completed = Counters

\* C9: once the animation of an element has completed it displays its target
\* exactly, and nothing changes that afterwards.
C9_FinalCountIsTarget ==
  \A c \in completed : display[c].num = targets[c]

C9_Witness ==
  \E c \in completed :
    /\ targets[c] = 150
    /\ display[c].num = 150
    /\ frames = {}

\* An animation frame has written the element.
Written(c) ==
  \/ c \in completed
  \/ display[c].num # 0
  \/ \E f \in frames : f.el = c /\ f.elapsed > 0

\* C10: the numbers an element displays frame after frame never decrease, and
\* the sequence ends at the target.
C10_CountNonDecreasing ==
  /\ [][\A c \in Counters : Written(c) => display'[c].num >= display[c].num]_vars
  /\ [][\A c \in Counters :
          (c \notin completed /\ c \in completed') => display'[c].num = targets[c]]_vars

C10_Witness ==
  \E f \in frames :
    /\ f.elapsed > 0
    /\ display[f.el].num > 0
    /\ display[f.el].num < targets[f.el]

\* ------------------------------------------------------------------------
\* Properties of the observers (StatsSpec)
\* ------------------------------------------------------------------------
\* The elements a fade-in observer of the variant reveals
RevealTargets == FadeTargets(variant)

\* C11: the reveal is one-way: an element that carries the class 'visible'
\* keeps it whatever an intersection callback reports afterwards (entering or
\* leaving), and a second intersecting report for an element applies nothing
\* new: the class is carried once, by observed elements only.
C11_RevealOneWay ==
  /\ [][visible \subseteq visible']_vars
  /\ [](visible \subseteq RevealTargets)
  /\ [][(visible = RevealTargets) => (visible' = visible)]_vars

\* The element is revealed and a second intersecting report for it has been
\* delivered (its deferred class addition is pending again).
C11_Witness ==
  /\ variant = "part000"
  /\ "fade-in" \in visible
  /\ "fade-in" \in classFrames

\* The observer that reveals the fade-in targets
FadeObserver(v) == IF v = "script" THEN "scroll" ELSE "fade"

\* C21: every fade-in target collected at initialization that enters the
\* viewport eventually carries the class 'visible', whatever the motion
\* preference at initialization or later: the targets are watched by a
\* connected observer as long as the page lives, and a target a callback
\* reported as intersecting is eventually revealed.
C21_IntersectingEventuallyVisible ==
  /\ [](~unloaded => FadeObserver(variant) \in connected)
  /\ \A e \in FadeTargets("script") \cup FadeTargets("part000") :
       (e \in reported) ~> (e \in visible)

\* A reported target is always revealed in the end (the half of C21 that holds)
ReportedEventuallyVisible ==
  \A e \in FadeTargets("script") \cup FadeTargets("part000") :
    (e \in reported) ~> (e \in visible)

\* C22: an intersection callback that reveals an element adds the class
\* 'visible' inside the callback when STATE.reducedMotion is true at that
\* moment; otherwise the element does not carry the class when the callback
\* returns and the addition waits for the next animation frame.
C22_RevealDeferredUnlessReduced ==
  [][(IntersectionCallback \/ ScrollAnimationsCallback)
       => /\ \A e \in reported' \ reported :
               IF reducedMotion THEN e \in visible'
                                ELSE e \notin visible' /\ e \in classFrames'
          /\ ~reducedMotion => visible' = visible]_vars

\* In part_000 the class is added in the callback under reduced motion
C22_SynchronousReveal ==
  /\ variant = "part000"
  /\ reducedMotion
  /\ "fade-in" \in visible
  /\ classFrames = {}
  /\ frames = {}
  /\ statsRuns = 0

\* In part_000 the class is added in the callback under reduced motion and in
\* the next frame otherwise (C22 restricted to the variant that defers)
C22_Part000RevealDeferredUnlessReduced ==
  [][(variant = "part000" /\ IntersectionCallback)
       => /\ \A e \in reported' \ reported :
               IF reducedMotion THEN e \in visible'
                                ELSE e \notin visible' /\ e \in classFrames'
          /\ ~reducedMotion => visible' = visible]_vars

\* C18: while STATE.reducedMotion is true no counting animation is started
\* (by an intersection callback or otherwise) and none is continued (an
\* animation frame requests no further frame).
C18_NoCountingWhileReduced ==
  /\ [][reducedMotion => statsRuns' = statsRuns]_vars
  /\ [][(reducedMotion /\ AnimationFrame) => frames' = {}]_vars

\* C19: beforeunload disconnects every intersection observer the script
\* created; in part_000 STATE.observers holds every connected observer before
\* and is empty afterwards.
C19_TeardownDisconnectsObservers ==
  /\ unloaded => (connected = {} /\ observers = << >>)
  /\ variant = "part000" => Range(observers) = connected

\* The frame callback of element c ran at progress p (in units of 1/StatsSteps)
\* and left floor(eased * T), eased = 1 - (1 - p)^3, followed by '+' exactly
\* when T >= 100.
ShowsEasedCount(text, T, p) ==
  /\ text.num * Cube(StatsSteps) <= T * (Cube(StatsSteps) - Cube(StatsSteps - p))
  /\ T * (Cube(StatsSteps) - Cube(StatsSteps - p)) < (text.num + 1) * Cube(StatsSteps)
  /\ text.plus <=> (T >= 100)

\* C20: every animation frame of a counter with target T leaves the text
\* floor(eased * T), with progress = min(elapsed / duration, 1), followed by
\* '+' exactly when T >= 100, in both variants.
C20_DisplayedTextFormula ==
  [][AnimationFrame
       => \A c \in Counters :
            (\E f \in frames : f.el = c)
              => \E dt \in 1..MaxFrameGap :
                   /\ \A f \in frames : Progress(f.elapsed + dt) < StatsSteps
                        => [f EXCEPT !.elapsed = f.elapsed + dt] \in frames'
                   /\ ShowsEasedCount(display'[c], targets[c],
                                      IF LastCallback(c).elapsed + dt < StatsSteps
                                        THEN LastCallback(c).elapsed + dt
                                        ELSE StatsSteps)]_vars

\* ------------------------------------------------------------------------
\* Properties of the wrappers (WrapperSpec)
\* ------------------------------------------------------------------------
\* The closure and the pending timers of wrapper w
ClosureOf(w, flags, timers) ==
  << IF w \in Throttles THEN flags[w] ELSE FALSE, {t \in timers : t.w = w} >>

\* C12: a throttle wrapper runs fn at once on its first call and on the first
\* call made more than limit after the last executed call; a call made less
\* than limit after the last executed call is dropped: fn does not run, the
\* closure and its timer stay as they are, and the release of the throttle
\* replays nothing.
C12_ThrottleLeadingEdge ==
  /\ [][\A w \in Throttles, args \in WrapperArgs :
          WrapperCall(w, args)
            => /\ (sinceExec[w] = Never \/ sinceExec[w] > Delay(w))
                    => (fired' = [w |-> w, args |-> args] /\ sinceExec'[w] = 0)
               /\ (sinceExec[w] # Never /\ sinceExec[w] < Delay(w))
                    => /\ fired' = NoCall
                       /\ ClosureOf(w, inThrottle', wtimers') = ClosureOf(w, inThrottle, wtimers)
                       /\ sinceExec'[w] = sinceExec[w]]_vars
  /\ [][\A t \in wtimers :
          (WrapperTimeoutStep(t) /\ t.w \in Throttles) => fired' = NoCall]_vars

\* The calls at 0, 5 and 15 ms with a limit of 10 ms: the third call has just
\* run fn, the second was dropped.
C12_Witness ==
  /\ fired = [w |-> "navbar", args |-> "b"]
  /\ "navbar" \in dropped
  /\ sinceExec["navbar"] = 0

\* C13: every call of a debounce wrapper replaces the pending timer by one of
\* wait ms that carries the call's arguments; fn runs only when wait ms have
\* passed since the last call, once, with the arguments of that call.
C13_DebounceTrailingEdge ==
  /\ [][\A w \in Debounces, args \in WrapperArgs :
          WrapperCall(w, args)
            => /\ fired' = NoCall
               /\ {t \in wtimers' : t.w = w}
                    = {[w |-> w, rem |-> Delay(w), args |-> args]}]_vars
  /\ [][(fired' # NoCall /\ fired'.w \in Debounces)
          => /\ sinceCall[fired'.w] = Delay(fired'.w)
             /\ fired'.args = lastArgs[fired'.w]
             /\ \A t \in wtimers' : t.w # fired'.w]_vars
  /\ [](\A w \in Debounces : Cardinality({t \in wtimers : t.w = w}) <= 1)

\* A burst whose calls carried different arguments has ended: fn has just run
\* once, with the arguments of the last call.
C13_Witness ==
  /\ fired = [w |-> "resize", args |-> "b"]
  /\ "resize" \in superseded
  /\ sinceCall["resize"] = Delay("resize")
  /\ \A t \in wtimers : t.w # "resize"

\* C14: a call of one wrapper, and the timer of one wrapper, leave the closure
\* and the timers of every other wrapper as they are and run no function but
\* the wrapper's own.
C14_WrappersShareNoState ==
  /\ [][\A w \in Wrappers, args \in WrapperArgs :
          WrapperCall(w, args)
            => /\ \A u \in Wrappers \ {w} :
                    ClosureOf(u, inThrottle', wtimers') = ClosureOf(u, inThrottle, wtimers)
               /\ fired' # NoCall => fired'.w = w]_vars
  /\ [][\A t \in wtimers :
          WrapperTimeoutStep(t)
            => /\ \A u \in Wrappers \ {t.w} :
                    ClosureOf(u, inThrottle', wtimers') = ClosureOf(u, inThrottle, wtimers)
               /\ fired' # NoCall => fired'.w = t.w]_vars

\* The navbar throttle has been released while the back-to-top throttle, hit
\* by the same scroll events, still drops calls, and a resize is pending.
C14_Witness ==
  /\ ~inThrottle["navbar"]
  /\ sinceExec["navbar"] > Delay("navbar")
  /\ inThrottle["backToTop"]
  /\ {"navbar", "backToTop"} \subseteq dropped
  /\ \E t \in wtimers : t.w = "resize"

\* ------------------------------------------------------------------------
\* Properties of the initialization (PageSpec)
\* ------------------------------------------------------------------------
NavigationElements == {"navbar", "nav-menu", "mobile-menu-btn"}

\* C15: without IntersectionObserver support the observer features do not
\* activate, and the initializers of the unrelated components ordered after
\* the failing one (team section, contact form, back-to-top) still run and
\* register their handlers.
C15_ObserverFailureIsolated ==
  (initResult # "pending" /\ ~ioSupport)
    => /\ connected = {}
       /\ observed = {}
       /\ "contact-form" \in inDocument => "contact-form" \in listeners
       /\ "back-to-top" \in inDocument => "back-to-top" \in listeners
       /\ (variant = "part000" /\ "team-grid" \in inDocument) => "team" \in listeners

PageInitAgreesWithStatsInit ==
  (initResult = "done" /\ inDocument = Elements)
    => /\ observers = ObserversKept(variant, reducedMotion)
       /\ connected = Range(ObserversCreated(variant, reducedMotion))
       /\ reducedMotion = statsMedia

\* ------------------------------------------------------------------------
\* Further properties of the language cycle (Spec)
\* ------------------------------------------------------------------------
\* Time since the interval t last fired (or was set), in milliseconds
SinceTick(t) == (IntervalDelay - t.rem) * TimeUnit

\* C25: the tick schedules the text swap half a fade duration later, the swap
\* schedules the removal of fade-in for the remaining half, so that in an
\* undisturbed run the transition is over one fade duration (FADE_DURATION)
\* after the tick: from then until the next tick the element carries no fade
\* class and no fade timeout is pending.
C25_TransitionLastsOneFade ==
  /\ [][IntervalTick
          => [kind |-> "swap", idx |-> currentLanguageIndex',
              rem |-> (FADE_DURATION \div 2) \div TimeUnit] \in timeouts']_vars
  /\ [][\A t \in timeouts :
          HalfFadeStep(t)
            => [kind |-> "cleanup", idx |-> 0,
                rem |-> (FADE_DURATION - FADE_DURATION \div 2) \div TimeUnit] \in timeouts']_vars
  /\ []((run = "single" /\ periods > 0)
          => \A t \in intervals :
               SinceTick(t) > FADE_DURATION => ~TransitionInProgress)

\* What the code does (checked, no claim of its own): the removal of fade-in
\* is scheduled a whole fade duration after the swap, and in an undisturbed
\* run the transition is over one and a half fade durations after the tick.
TransitionLastsFadeAndAHalf ==
  /\ [][\A t \in timeouts :
          HalfFadeStep(t)
            => [kind |-> "cleanup", idx |-> 0,
                rem |-> FADE_DURATION \div TimeUnit] \in timeouts']_vars
  /\ []((run = "single" /\ periods > 0)
          => \A t \in intervals :
               SinceTick(t) > FADE_DURATION + FADE_DURATION \div 2
                 => ~TransitionInProgress)

\* A stop through a listener that does nothing else
StopAlone == VisibilityHidden \/ BeforeUnload

\* C26: stopMultilingualAnimation clears the interval animationInterval
\* names and sets animationInterval to null, and leaves everything else:
\* currentLanguageIndex, the element's text, lang, aria-label, aria-live and
\* fade classes, the pending fade timeouts and the preference flag; with no
\* handle set it changes nothing.
C26_StopTouchesTimerOnly ==
  [][StopAlone
       => /\ animationInterval' = 0
          /\ intervals' = {t \in intervals : t.id # animationInterval}
          /\ animationInterval = 0 => intervals' = intervals
          /\ currentLanguageIndex' = currentLanguageIndex
          /\ hero' = hero
          /\ timeouts' = timeouts
          /\ prefersReducedMotion' = prefersReducedMotion]_vars

\* The cycle was stopped in the middle of a transition: the fade-out class
\* and the pending swap are still there
C26_Witness ==
  /\ hidden
  /\ animationInterval = 0
  /\ intervals = {}
  /\ currentLanguageIndex = 1
  /\ Shows(hero, 0)
  /\ "fade-out" \in hero.classes
  /\ \E t \in timeouts : t.kind = "swap"

\* C27: once init() has run the hero element's aria-live is set, and its
\* text is never shown without the matching attributes: when the text is that
\* of an entry of LANGUAGES (after a swap, a start or a reset), lang and
\* aria-label are those of the same entry.
C27_TextWithMatchingAttributes ==
  (loaded /\ hero.present)
    => /\ hero.ariaLive = "polite"
       /\ (\E k \in 0..(Len(LANGUAGES) - 1) : hero.text = Language(k).text)
            => \E k \in 0..(Len(LANGUAGES) - 1) : Shows(hero, k)

\* What holds of updateLanguageText (checked, no claim of its own): a swap
\* and a start of the cycle leave text, lang and aria-label of one entry.
SwapSetsMatchingAttributes ==
  [][(hero.present /\ ((\E t \in timeouts : HalfFadeStep(t)) \/ Restart))
       => /\ hero'.ariaLive = "polite"
          /\ \E k \in 0..(Len(LANGUAGES) - 1) : Shows(hero', k)]_vars

\* C30: whenever an interval of the cycle is live and no transition is in
\* progress (no fade class on the element, no fade timeout pending), text,
\* lang and aria-label are those of LANGUAGES[currentLanguageIndex].
C30_IdleShowsCurrentLanguage ==
  (hero.present /\ intervals # {} /\ ~TransitionInProgress)
    => Shows(hero, currentLanguageIndex)

\* What holds (checked, no claim of its own): the same with one interval, the
\* tracked one, and the preference flag false, that is without the timers
\* that C1 and C3 leave running.
IdleShowsCurrentLanguageOneTimer ==
  (hero.present /\ intervals # {} /\ NoStrayInterval /\ ~prefersReducedMotion
     /\ ~TransitionInProgress)
    => Shows(hero, currentLanguageIndex)

\* ------------------------------------------------------------------------
\* Properties of the page in use (NavSpec)
\* ------------------------------------------------------------------------
\* The last entry of the callback that reports its section as intersecting
LastIntersecting(entries) ==
  entries[CHOOSE i \in 1..Len(entries) :
            /\ entries[i].isIntersecting
            /\ \A j \in 1..Len(entries) : entries[j].isIntersecting => j <= i]

\* C23: whatever the section observer of part_000 delivers, in any state: when
\* some entry is intersecting, the callback leaves STATE.currentSection at
\* the id of the last intersecting entry and the highlight on the links whose
\* href is '#' + that id, and nothing else changed; when no entry is
\* intersecting, the callback changes nothing.
C23_LastIntersectingSectionWins ==
  variant = "part000"
    => \A entries \in EntriesOver(Sections) :
         LET after == forEachSectionEntry(nav, entries) IN
         IF Intersecting(entries) = {}
           THEN after = nav
           ELSE after = [nav EXCEPT
                           !.currentSection = LastIntersecting(entries).target,
                           !.activeLinks = {Href(LastIntersecting(entries).target)}]

\* The tracker has overwritten the highlight a click on '#about' had set
C23_Witness ==
  /\ variant = "part000"
  /\ nav.location = "about"
  /\ nav.currentSection = "contact"
  /\ nav.activeLinks = {Href("contact")}

\* C24: STATE.currentSection changes in a section observer callback only:
\* clicks on navigation links, menu operations (button, outside click,
\* Escape, resize, focus timer), the scroll handler, the form handlers and
\* cleanup leave it as it was.
C24_OnlyTrackerWritesCurrentSection ==
  [][/\ (nav'.currentSection # nav.currentSection) => SectionCallback
     /\ ( NavigationClick \/ MenuButtonClick \/ OutsideClick \/ EscapeKey
          \/ ResizeSettled \/ FocusTimeout \/ NavbarScroll \/ SubmitEvent
          \/ SubmissionTimeout \/ SuccessHideTimeout \/ NavBeforeUnload )
         => nav'.currentSection = nav.currentSection]_vars

\* The tracker has set a section; a click, a menu operation, a submission
\* and cleanup have happened since and the section stands
C24_Witness ==
  /\ variant = "part000"
  /\ nav.currentSection = "contact"
  /\ nav.location = "about"
  /\ nav.activeLinks = {Href("about")}
  /\ nav.ariaExpanded = "false"
  /\ nav.scrolled
  /\ form.successShown
  /\ unloaded

\* ------------------------------------------------------------------------
\* Properties of the contact form (FormSpec)
\* ------------------------------------------------------------------------
\* C28: a submit event whose validation fails starts no submission: the
\* submit button keeps its state (not disabled, not loading), no submission
\* delay timer or request is started, no error is reported, the success
\* message is not shown and the values of the form are not reset.
C28_InvalidSubmitStartsNothing ==
  [][(SubmitEvent /\ ~validateForm(variant, form).valid)
       => /\ form'.submitBtn = form.submitBtn
          /\ ~form'.submitBtn.disabled /\ ~form'.submitBtn.loading
          /\ form'.submitTimers = form.submitTimers
          /\ form'.hideTimers = form.hideTimers
          /\ form'.successShown = form.successShown
          /\ form'.alerted = form.alerted
          /\ form'.values = form.values]_vars

\* A submission of a partly filled form was refused (part_000 moved the focus
\* to the first invalid field): nothing was started, the values stand
C28_Witness ==
  /\ variant = "part000"
  /\ nav.focus = "email"
  /\ form.values["name"] = Good
  /\ form.marks["email"].class = "error"
  /\ ~form.submitBtn.disabled
  /\ form.submitBtn.btnText = "markup"
  /\ form.submitTimers = 0
  /\ ~form.successShown

\* handleFormSubmission throws: a field it reads is missing (at once), or the
\* success message is (after the delay)
SubmissionThrows ==
  \/ ~(FieldNames \subseteq form.elements)
  \/ "success-message" \notin form.elements

\* C29: in part_000 the submit button is disabled and loading exactly while a
\* valid submission is in flight; when handleFormSubmission finishes the
\* button is enabled and not loading; on success the success message is
\* shown and the form is reset; on failure the message is not shown and the
\* form is not reset.
C29_LoadingWhileInFlight ==
  /\ [](variant = "part000"
          => /\ form.submitBtn.disabled <=> form.submitTimers > 0
             /\ form.submitBtn.loading <=> form.submitTimers > 0)
  /\ [][(variant = "part000" /\ SubmissionTimeout)
          => /\ form'.submitBtn.disabled = FALSE
             /\ form'.submitBtn.loading = FALSE
             /\ IF SubmissionThrows
                  THEN /\ form'.successShown = form.successShown
                       /\ form'.hideTimers = form.hideTimers
                       /\ form'.values = form.values
                       /\ form'.marks = form.marks
                  ELSE /\ form'.successShown
                       /\ form'.values = Blank
                       /\ form'.marks = [f \in FieldNames |-> Unmarked]]_vars
  /\ [][(variant = "part000" /\ SubmitEvent /\ validateForm(variant, form).valid
          /\ ~(FieldNames \subseteq form.elements))
          => /\ form'.submitBtn.disabled = FALSE
             /\ form'.submitBtn.loading = FALSE
             /\ form'.submitTimers = 0
             /\ form'.successShown = form.successShown
             /\ form'.values = form.values]_vars

\* A submission failed after its delay: the button is restored, the values
\* are kept and no success message is shown
C29_Witness ==
  /\ variant = "part000"
  /\ "success-message" \notin form.elements
  /\ form.alerted
  /\ form.submitBtn = [disabled |-> FALSE, loading |-> FALSE,
                       btnText |-> "block", btnLoading |-> "none"]
  /\ form.values = Filled
  /\ ~form.successShown
  /\ form.submitTimers = 0

\* ------------------------------------------------------------------------
\* Properties of the language cycle, continued (Spec)
\* ------------------------------------------------------------------------
\* C31: the hero element never carries the fade-out and the fade-in class at
\* the same time, after any sequence of ticks, stops, restarts, visibility
\* changes and motion-preference changes.
C31_NeverBothFadeClasses ==
  ~({"fade-out", "fade-in"} \subseteq hero.classes)

\* What holds (checked, no claim of its own): the same while no interval but
\* the tracked one is live.  An untracked interval is never cleared, so such a
\* state has had no duplicate timer before either.
NeverBothFadeClassesOneTimer ==
  NoStrayInterval => ~({"fade-out", "fade-in"} \subseteq hero.classes)

\* ------------------------------------------------------------------------
\* Properties of the statistics counter, continued (StatsSpec)
\* ------------------------------------------------------------------------
\* C33: for every counter with target T >= 0 and every animation frame,
\* whatever the frame's timestamp is relative to the start time sampled with
\* performance.now(), the displayed number n satisfies 0 <= n <= T.
C33_CountWithinTarget ==
  \A c \in Counters : 0 <= display[c].num /\ display[c].num <= targets[c]

\* What holds (checked, no claim of its own): the number never exceeds the
\* target, and a frame whose timestamp is not before the start time leaves a
\* number that is not negative.
CountAtMostTarget ==
  \A c \in Counters : display[c].num <= targets[c]

CountNotNegativeFromStart ==
  [][\A c \in Counters :
       (\A f \in frames' : f.el = c => f.elapsed >= 0) => display'[c].num >= 0]_vars

\* ------------------------------------------------------------------------
\* Properties of the page in use, continued (NavSpec)
\* ------------------------------------------------------------------------
\* C34: in part_000, once a highlight has been set, a nav link carries the
\* class 'active' if and only if its href is '#' + STATE.currentSection, after
\* any sequence of section-tracker callbacks and navigation-link clicks.
C34_HighlightAgreesWithSection ==
  (variant = "part000" /\ nav.activeLinks # {})
    => nav.activeLinks = {Href(nav.currentSection)}

\* The menu is shown as open: the nav menu and the menu button carry
\* 'active', aria-expanded is 'true', the body's scrolling is locked
ShownOpen(nv) ==
  /\ nv.navMenuActive
  /\ nv.btnActive
  /\ nv.ariaExpanded = "true"
  /\ nv.overflow = "hidden"

\* The menu is shown as closed in every representation
ShownClosed(nv) ==
  /\ ~nv.navMenuActive
  /\ ~nv.btnActive
  /\ nv.ariaExpanded # "true"
  /\ nv.overflow # "hidden"

\* A click on a navigation link whose href is internal and has a target
InternalLinkClick ==
  \E link \in {l \in NavLinks : l.hash /\ TargetExists(l)} :
    /\ nav' = handleNavigationClick(nav, link)
    /\ UNCHANGED form
    /\ UiFrame

\* C35: after any sequence of menu-button clicks, outside clicks, Escape key
\* presses, resizes and navigation-link clicks, STATE.isNavOpen is true if and
\* only if the nav menu and the menu button carry 'active', aria-expanded is
\* 'true' and the body's overflow is 'hidden'; Escape, an outside click and a
\* navigation-link click each leave the menu closed.
C35_MenuRepresentationsAgree ==
  /\ [](nav.isNavOpen <=> ShownOpen(nav))
  /\ [][(EscapeKey \/ OutsideClick \/ InternalLinkClick) => ~nav'.isNavOpen]_vars

\* What holds (checked, no claim of its own): where the menu button carries
\* the listener of setupMobileMenu alone, every representation follows
\* STATE.isNavOpen, and the three events leave the menu closed everywhere.
MenuAgreesWithoutFallback ==
  /\ []("fallback-menu" \notin listeners
         => IF nav.isNavOpen THEN ShownOpen(nav) ELSE ShownClosed(nav))
  /\ [][(EscapeKey \/ OutsideClick \/ InternalLinkClick)
         => (~nav'.isNavOpen /\ ("fallback-menu" \notin listeners => ShownClosed(nav')))]_vars

\* ------------------------------------------------------------------------
\* Properties of the sheen of the hero letters (SheenSpec)
\* ------------------------------------------------------------------------
\* C36: at most one sheen loop (a pending timeout of animateSheen) exists per
\* hero letter at any time, after any sequence of reduced-motion changes:
\* re-enabling motion leaves no letter with two loops.
C36_OneSheenLoopPerLetter ==
  \A l \in DOMAIN sheenTimers.loops : sheenTimers.loops[l] <= 1

\* What holds (checked, no claim of its own): while STATE.reducedMotion is
\* true a loop that ticks sets no further timeout and no loop starts.
ReducedLoopStopsAtTick ==
  [][\A l \in DOMAIN sheenTimers.loops :
       (reducedMotion /\ reducedMotion')
         => /\ sheenTimers'.loops[l] <= sheenTimers.loops[l]
            /\ SheenLoopStep(l) => sheenTimers'.loops[l] = sheenTimers.loops[l] - 1]_vars

\* ------------------------------------------------------------------------
\* Properties of the running cycle (CycleLiveSpec)
\* ------------------------------------------------------------------------
\* C32: from any reachable state, if the hero element exists and from then
\* on the page stays visible and motion stays allowed, the language cycle
\* keeps running: from some time on a live interval always exists, and
\* every entry of LANGUAGES is displayed again and again.
C32_CycleKeepsRunning ==
  (hero.present /\ <>[](~hidden /\ ~mediaReduced))
    => /\ <>[](intervals # {})
       /\ \A k \in 0..(Len(LANGUAGES) - 1) : []<>Shows(hero, k)

\* What holds (checked, no claim of its own): on a loaded, visible page with
\* motion allowed and a hero element, only 'beforeunload' leaves the cycle
\* without a live interval; and as long as a live interval exists every
\* entry of LANGUAGES is displayed again and again.
CycleRunsUnlessUnloadStopped ==
  /\ [][(hero.present /\ loaded' /\ ~hidden' /\ ~mediaReduced' /\ intervals' = {})
          => \/ BeforeUnload
             \/ (loaded /\ ~hidden /\ ~mediaReduced /\ intervals = {})]_vars
  /\ <>[](intervals # {})
       => \A k \in 0..(Len(LANGUAGES) - 1) : []<>Shows(hero, k)

====
